---- MODULE Spec2Model ----
(***************************************************************************)
(* Import and categorisation pipeline of finance_tracker.                  *)
(*                                                                         *)
(* Text that the code inspects character by character (dates, amounts,     *)
(* descriptions, rule patterns, institution names) is a sequence of        *)
(* one-character strings.  Text that the code only compares for equality   *)
(* (header names, category names, status labels) is a TLA+ string.         *)
(* Python's None is NoneStr for a text value and NoId for a row id.        *)
(***************************************************************************)
EXTENDS Integers, Sequences, FiniteSets, TLC

\* ------------------------------------------------------------------------
\* Text helpers (Python str semantics on ASCII text)
\* ------------------------------------------------------------------------

NoneStr == <<"<None>">>

NoId == 0

LowerChars == <<"a","b","c","d","e","f","g","h","i","j","k","l","m",
                "n","o","p","q","r","s","t","u","v","w","x","y","z">>

UpperChars == <<"A","B","C","D","E","F","G","H","I","J","K","L","M",
                "N","O","P","Q","R","S","T","U","V","W","X","Y","Z">>

DigitChars == <<"0","1","2","3","4","5","6","7","8","9">>

IsDigit(c) == \E i \in 1..10 : DigitChars[i] = c

DigitVal(c) == (CHOOSE i \in 1..10 : DigitChars[i] = c) - 1

IsSpace(c) == c \in {" ", "\t"}

UpperChar(c) ==
    IF \E i \in 1..26 : LowerChars[i] = c
    THEN UpperChars[CHOOSE i \in 1..26 : LowerChars[i] = c]
    ELSE c

LowerChar(c) ==
    IF \E i \in 1..26 : UpperChars[i] = c
    THEN LowerChars[CHOOSE i \in 1..26 : UpperChars[i] = c]
    ELSE c

\* str.upper()
Upper(s) == [i \in 1..Len(s) |-> UpperChar(s[i])]

\* str.lower()
Lower(s) == [i \in 1..Len(s) |-> LowerChar(s[i])]

\* `pat in s`
Contains(s, pat) ==
    \E i \in 0..(Len(s) - Len(pat)) :
        \A k \in 1..Len(pat) : s[i + k] = pat[k]

\* s.startswith(pre)
StartsWith(s, pre) ==
    /\ Len(pre) <= Len(s)
    /\ \A k \in 1..Len(pre) : s[k] = pre[k]

\* s[n:]
Drop(s, n) == IF n >= Len(s) THEN <<>> ELSE SubSeq(s, n + 1, Len(s))

\* s.replace(c, "") for a one-character c
RECURSIVE RemoveChar(_, _)
RemoveChar(s, c) ==
    IF s = <<>> THEN <<>>
    ELSE IF Head(s) = c THEN RemoveChar(Tail(s), c)
    ELSE <<Head(s)>> \o RemoveChar(Tail(s), c)

RECURSIVE LStrip(_)
LStrip(s) == IF s # <<>> /\ IsSpace(Head(s)) THEN LStrip(Tail(s)) ELSE s

RECURSIVE RStrip(_)
RStrip(s) ==
    IF s # <<>> /\ IsSpace(s[Len(s)]) THEN RStrip(SubSeq(s, 1, Len(s) - 1)) ELSE s

\* str.strip()
Strip(s) == RStrip(LStrip(s))

AllDigits(s) == \A i \in 1..Len(s) : IsDigit(s[i])

\* int(s) for a string of digits
RECURSIVE DigitsVal(_)
DigitsVal(s) ==
    IF s = <<>> THEN 0
    ELSE 10 * DigitsVal(SubSeq(s, 1, Len(s) - 1)) + DigitVal(s[Len(s)])

\* str(n) for n >= 0
RECURSIVE NatStr(_)
NatStr(n) ==
    IF n < 10 THEN <<DigitChars[n + 1]>>
    ELSE NatStr(n \div 10) \o <<DigitChars[(n % 10) + 1]>>

\* n zero-padded to at least w digits ("%02d")
RECURSIVE ZeroPad(_, _)
ZeroPad(s, w) == IF Len(s) >= w THEN s ELSE ZeroPad(<<"0">> \o s, w)

\* index of the first c in s, 0 when absent
FirstIndex(s, c) ==
    IF \E i \in 1..Len(s) : s[i] = c
    THEN CHOOSE i \in 1..Len(s) : s[i] = c /\ \A j \in 1..(i - 1) : s[j] # c
    ELSE 0

\* ------------------------------------------------------------------------
\* decimal.Decimal, datetime.date  (the values a ParsedTransaction carries)
\* ------------------------------------------------------------------------

\* A Decimal is sign, coefficient and exponent, as decimal.Decimal keeps
\* them: Decimal("5.50") is (0, 550, -2) and differs from Decimal("5.5").
\* Inputs covered: [sign] digits [. digits] and [sign] NaN, surrounded by
\* optional blanks.  ok = FALSE stands for decimal.InvalidOperation.
DecimalInvalid == [ok |-> FALSE, nan |-> FALSE, sign |-> 0, coef |-> 0, exp |-> 0]

DecimalNaN(sg) == [ok |-> TRUE, nan |-> TRUE, sign |-> sg, coef |-> 0, exp |-> 0]

DecimalOfDigits(sg, body) ==
    LET dot  == FirstIndex(body, ".")
        ip   == IF dot = 0 THEN body ELSE SubSeq(body, 1, dot - 1)
        fp   == IF dot = 0 THEN <<>> ELSE Drop(body, dot)
    IN  IF AllDigits(ip) /\ AllDigits(fp) /\ Len(ip) + Len(fp) > 0
        THEN [ok |-> TRUE, nan |-> FALSE, sign |-> sg,
              coef |-> DigitsVal(ip \o fp), exp |-> 0 - Len(fp)]
        ELSE DecimalInvalid

\* Decimal(s)
Decimal(s) ==
    LET t    == Strip(s)
        sg   == IF t # <<>> /\ Head(t) = "-" THEN 1 ELSE 0
        body == IF t # <<>> /\ Head(t) \in {"+", "-"} THEN Tail(t) ELSE t
    IN  IF Lower(body) = <<"n","a","n">> THEN DecimalNaN(sg)
        ELSE DecimalOfDigits(sg, body)

\* -d  (Decimal.__neg__: a NaN is returned as it is, a zero loses its sign)
Neg(d) ==
    IF d.nan THEN d
    ELSE IF d.coef = 0 THEN [d EXCEPT !.sign = 0]
    ELSE [d EXCEPT !.sign = 1 - d.sign]

\* d > 0 and d < 0 raise InvalidOperation on a NaN: callers test d.nan first
IsPositive(d) == d.coef > 0 /\ d.sign = 0

IsNegative(d) == d.coef > 0 /\ d.sign = 1

\* float(d) as the number it denotes: <<signed coefficient, exponent>> with
\* trailing zeros removed, so 5.50 and 5.5 are the same REAL.  A NaN is bound
\* by SQLite as NULL.
RECURSIVE Normalize(_, _)
Normalize(c, e) ==
    IF c = 0 THEN <<0, 0>>
    ELSE IF e < 0 /\ c % 10 = 0 THEN Normalize(c \div 10, e + 1)
    ELSE <<c, e>>

\* the text of the number d denotes, trailing zeros of the fraction dropped
DecimalStrOfValue(d) ==
    LET sg  == IF d.sign = 1 THEN <<"-">> ELSE <<>>
        ce  == Normalize(d.coef, d.exp)
        ds  == ZeroPad(NatStr(ce[1]), 1 - ce[2])
        cut == Len(ds) + ce[2]
    IN  IF d.nan THEN sg \o <<"N","a","N">>
        ELSE IF ce[2] = 0 THEN sg \o ds
        ELSE sg \o SubSeq(ds, 1, cut) \o <<".">> \o Drop(ds, cut)

\* str(d), plain notation
DecimalStr(d) ==
    LET sg  == IF d.sign = 1 THEN <<"-">> ELSE <<>>
        ds  == ZeroPad(NatStr(d.coef), 1 - d.exp)
        cut == Len(ds) + d.exp
    IN  IF d.nan THEN sg \o <<"N","a","N">>
        ELSE IF d.exp = 0 THEN sg \o ds
        ELSE sg \o SubSeq(ds, 1, cut) \o <<".">> \o Drop(ds, cut)

SqlNull == <<>>

Float(d) ==
    IF d.nan THEN SqlNull
    ELSE Normalize(IF d.sign = 1 THEN 0 - d.coef ELSE d.coef, d.exp)

\* A date is <<year, month, day>>; DateInvalid stands for ValueError.
DateInvalid == <<0, 0, 0>>

IsLeap(y) == (y % 4 = 0 /\ y % 100 # 0) \/ y % 400 = 0

DaysInMonth(y, m) ==
    IF m = 2 THEN (IF IsLeap(y) THEN 29 ELSE 28)
    ELSE IF m \in {4, 6, 9, 11} THEN 30 ELSE 31

\* datetime.date(y, m, d)
MakeDate(y, m, d) ==
    IF y >= 1 /\ m \in 1..12 /\ d >= 1 /\ d <= DaysInMonth(y, m)
    THEN <<y, m, d>> ELSE DateInvalid

\* the pieces of s between occurrences of sep
RECURSIVE Split(_, _)
Split(s, sep) ==
    LET i == FirstIndex(s, sep)
    IN  IF i = 0 THEN <<s>>
        ELSE <<SubSeq(s, 1, i - 1)>> \o Split(Drop(s, i), sep)

\* datetime.strptime(s, "%m/%d/%Y").date()
Strptime(s) ==
    LET p == Split(s, "/")
    IN  IF /\ Len(p) = 3
           /\ \A i \in 1..3 : AllDigits(p[i])
           /\ Len(p[1]) \in 1..2 /\ Len(p[2]) \in 1..2 /\ Len(p[3]) = 4
        THEN MakeDate(DigitsVal(p[3]), DigitsVal(p[1]), DigitsVal(p[2]))
        ELSE DateInvalid

\* datetime.fromisoformat(s).date() for YYYY-MM-DD[THH:MM:SS]
FromIsoformat(s) ==
    LET d == SubSeq(s, 1, 10)
        t == Drop(s, 10)
        p == Split(d, "-")
        q == Split(Drop(t, 1), ":")
    IN  IF /\ Len(s) >= 10
           /\ Len(p) = 3
           /\ Len(p[1]) = 4 /\ Len(p[2]) = 2 /\ Len(p[3]) = 2
           /\ \A i \in 1..3 : AllDigits(p[i])
           /\ \/ t = <<>>
              \/ /\ Head(t) \in {"T", " "}
                 /\ Len(q) = 3
                 /\ \A i \in 1..3 : Len(q[i]) = 2 /\ AllDigits(q[i])
                 /\ DigitsVal(q[1]) < 24 /\ DigitsVal(q[2]) < 60
                 /\ DigitsVal(q[3]) < 60
        THEN MakeDate(DigitsVal(p[1]), DigitsVal(p[2]), DigitsVal(p[3]))
        ELSE DateInvalid

\* str(date): YYYY-MM-DD
DateStr(d) ==
    ZeroPad(NatStr(d[1]), 4) \o <<"-">> \o ZeroPad(NatStr(d[2]), 2)
        \o <<"-">> \o ZeroPad(NatStr(d[3]), 2)

\* ------------------------------------------------------------------------
\* Files and csv.DictReader
\* ------------------------------------------------------------------------

\* A file is its name (stem and suffix), the metadata lines before the
\* header line (each one string; a metadata line holds no column name),
\* the header line (column names) and the data lines (each a sequence of
\* field texts).
FieldNames(file) ==
    IF file.preamble = <<>> THEN file.headers ELSE <<file.preamble[1]>>

Range(seq) == {seq[i] : i \in 1..Len(seq)}

\* dict(zip(fieldnames, values)): a later duplicate column wins, a missing
\* trailing field is None (restval)
RowDict(fieldnames, values) ==
    [h \in Range(fieldnames) |->
        LET i == CHOOSE k \in 1..Len(fieldnames) :
                     /\ fieldnames[k] = h
                     /\ \A j \in (k + 1)..Len(fieldnames) : fieldnames[j] # h
        IN  IF i <= Len(values) THEN values[i] ELSE NoneStr]

\* csv.DictReader skips lines without any field
RECURSIVE NonEmptyRows(_)
NonEmptyRows(rows) ==
    IF rows = <<>> THEN <<>>
    ELSE IF Head(rows) = <<>> THEN NonEmptyRows(Tail(rows))
    ELSE <<Head(rows)>> \o NonEmptyRows(Tail(rows))

\* the rows csv.DictReader(f) yields when it reads the file from its first
\* line (ChaseParser, AppleCardParser)
DictRows(file) ==
    LET data == NonEmptyRows(file.rows)
    IN  IF file.preamble = <<>>
        THEN [i \in 1..Len(data) |-> RowDict(file.headers, data[i])]
        ELSE \* the lines after the first are all data to this reader and
             \* carry none of the columns a parser reads
             [i \in 1..(Len(file.preamble) + Len(data)) |->
                 RowDict(FieldNames(file), <<>>)]

\* row.get(key, default)
Get(row, key, default) == IF key \in DOMAIN row THEN row[key] ELSE default

\* the outcome of parsing one row: a ParsedTransaction or the exception
Parsed(date, amount, description, merchant, original_category) ==
    [ok |-> TRUE, cause |-> "",
     txn |-> [date |-> date, amount |-> amount, description |-> description,
              merchant |-> merchant, original_category |-> original_category]]

NoTxn == [date |-> DateInvalid, amount |-> DecimalInvalid,
          description |-> NoneStr, merchant |-> NoneStr,
          original_category |-> NoneStr]

Raised(cause) == [ok |-> FALSE, cause |-> cause, txn |-> NoTxn]

\* f"Row {row_num}: {e}"
RowWarning(row_num, cause) == [kind |-> "Row", n |-> row_num, cause |-> cause]

\* x.strip() or None
StripOrNone(x) == IF Strip(x) = <<>> THEN NoneStr ELSE Strip(x)

\* ------------------------------------------------------------------------
\* parsers/chase.py
\* ------------------------------------------------------------------------

CREDIT_HEADERS ==
    <<"Transaction Date", "Post Date", "Description", "Category", "Type", "Amount">>

CHECKING_HEADERS ==
    <<"Details", "Posting Date", "Description", "Amount", "Type", "Balance">>

\* all(h in headers for h in required[:3])
FirstThreeIn(required, headers) ==
    \A i \in 1..3 : required[i] \in Range(headers)

ChaseCanParse(file) ==
    /\ file.suffix = ".csv"
    /\ \/ FirstThreeIn(CREDIT_HEADERS, FieldNames(file))
       \/ FirstThreeIn(CHECKING_HEADERS, FieldNames(file))

IsWord(c) ==
    \/ IsDigit(c)
    \/ c = "_"
    \/ \E i \in 1..26 : LowerChars[i] = c \/ UpperChars[i] = c

\* \b before position i of s (s[i] is a word character)
BoundaryBefore(s, i) == i = 1 \/ ~IsWord(s[i - 1])

\* \b after position j of s (s[j] is a word character)
BoundaryAfter(s, j) == j = Len(s) \/ ~IsWord(s[j + 1])

\* the number of digits of s from position i on
RECURSIVE DigitRun(_, _)
DigitRun(s, i) ==
    IF i <= Len(s) /\ IsDigit(s[i]) THEN 1 + DigitRun(s, i + 1) ELSE 0

\* re.sub(r"\b\d{10,}\b", "", s), from position i
RECURSIVE StripIds(_, _)
StripIds(s, i) ==
    IF i > Len(s) THEN <<>>
    ELSE LET n == DigitRun(s, i)
         IN  IF /\ n >= 10
                /\ BoundaryBefore(s, i)
                /\ BoundaryAfter(s, i + n - 1)
             THEN StripIds(s, i + n)
             ELSE <<s[i]>> \o StripIds(s, i + 1)

MERCHANT_PREFIXES ==
    << <<"D","E","B","I","T"," ","C","A","R","D">>,
       <<"C","R","E","D","I","T"," ","C","A","R","D">>,
       <<"A","C","H">>,
       <<"C","H","E","C","K","C","A","R","D">>,
       <<"P","O","S">> >>

\* re.sub(r"^(DEBIT CARD|CREDIT CARD|ACH|CHECKCARD|POS)\s+", "", s, flags=re.I)
StripPrefix(s) ==
    LET Hit(k) ==
            /\ StartsWith(Upper(s), MERCHANT_PREFIXES[k])
            /\ Len(s) > Len(MERCHANT_PREFIXES[k])
            /\ IsSpace(s[Len(MERCHANT_PREFIXES[k]) + 1])
    IN  IF \E k \in 1..Len(MERCHANT_PREFIXES) : Hit(k)
        THEN LET k == CHOOSE j \in 1..Len(MERCHANT_PREFIXES) :
                          Hit(j) /\ \A m \in 1..(j - 1) : ~Hit(m)
             IN  LStrip(Drop(s, Len(MERCHANT_PREFIXES[k])))
        ELSE s

IsDateSep(c) == c \in {"/", "-"}

\* the length of the match of \d{1,2}[/-]\d{1,2}[/-]\d{2,4}\b at position i
\* of s, 0 when there is none
DateMatchLen(s, i) ==
    LET a  == DigitRun(s, i)
        j  == i + a + 1
        b  == DigitRun(s, j)
        k  == j + b + 1
        c  == DigitRun(s, k)
    IN  IF /\ a \in 1..2
           /\ i + a <= Len(s) /\ IsDateSep(s[i + a])
           /\ b \in 1..2
           /\ j + b <= Len(s) /\ IsDateSep(s[j + b])
           /\ c \in 2..4
           /\ BoundaryAfter(s, k + c - 1)
        THEN a + b + c + 2
        ELSE 0

\* re.sub(r"\b\d{1,2}[/-]\d{1,2}[/-]\d{2,4}\b", "", s), from position i
RECURSIVE StripDates(_, _)
StripDates(s, i) ==
    IF i > Len(s) THEN <<>>
    ELSE LET n == IF IsDigit(s[i]) /\ BoundaryBefore(s, i)
                  THEN DateMatchLen(s, i) ELSE 0
         IN  IF n > 0 THEN StripDates(s, i + n)
             ELSE <<s[i]>> \o StripDates(s, i + 1)

\* re.sub(r"\s+", " ", s)
RECURSIVE CollapseSpace(_)
CollapseSpace(s) ==
    IF s = <<>> THEN <<>>
    ELSE IF IsSpace(Head(s)) THEN <<" ">> \o CollapseSpace(LStrip(s))
    ELSE <<Head(s)>> \o CollapseSpace(Tail(s))

\* ChaseParser._extract_merchant
ExtractMerchant(description) ==
    LET cleaned ==
            Strip(CollapseSpace(StripDates(StripPrefix(StripIds(description, 1)), 1)))
    IN  IF cleaned # <<>> /\ cleaned # description THEN cleaned ELSE NoneStr

\* the parts common to both Chase row schemas: the date column, the amount
\* text after `prep`, the description, and the column kept as original
\* category
ChaseRow(row, date_col, commas, cat_col) ==
    IF date_col \notin DOMAIN row THEN Raised("KeyError")
    ELSE IF row[date_col] = NoneStr THEN Raised("TypeError")
    ELSE IF Strptime(row[date_col]) = DateInvalid THEN Raised("ValueError")
    ELSE IF "Amount" \notin DOMAIN row THEN Raised("KeyError")
    ELSE IF row["Amount"] = NoneStr
         THEN Raised(IF commas THEN "AttributeError" ELSE "TypeError")
    ELSE LET amount == Decimal(IF commas THEN RemoveChar(row["Amount"], ",")
                               ELSE row["Amount"])
         IN  IF ~amount.ok THEN Raised("InvalidOperation")
             ELSE IF row["Description"] = NoneStr THEN Raised("TypeError")
             ELSE IF Get(row, cat_col, <<>>) = NoneStr THEN Raised("AttributeError")
             ELSE Parsed(Strptime(row[date_col]), amount, row["Description"],
                         ExtractMerchant(row["Description"]),
                         StripOrNone(Get(row, cat_col, <<>>)))

\* ChaseParser._parse_credit_row
ParseCreditRow(row) == ChaseRow(row, "Transaction Date", FALSE, "Category")

\* a checking row whose sign is turned when Details says DEBIT
ParseCheckingRowByDetails(row) ==
    LET out == ChaseRow(row, "Posting Date", TRUE, "Type")
    IN  IF out.ok /\ Get(row, "Details", <<>>) = <<"D","E","B","I","T">>
        THEN [out EXCEPT !.txn.amount = Neg(@)]
        ELSE out

\* ChaseParser._parse_checking_row
ParseCheckingRow(row) == ChaseRow(row, "Posting Date", TRUE, "Type")

\* the transactions list a parse loop builds from the rows' outcomes
RECURSIVE Transactions(_)
Transactions(outs) ==
    IF outs = <<>> THEN <<>>
    ELSE (IF Head(outs).ok THEN <<Head(outs).txn>> ELSE <<>>)
             \o Transactions(Tail(outs))

\* the warnings list: one entry per row that raised; the first row of outs
\* has number row_num.  A row the loop skipped with `continue` adds nothing.
RECURSIVE Warnings(_, _)
Warnings(outs, row_num) ==
    IF outs = <<>> THEN <<>>
    ELSE (IF Head(outs).ok \/ Head(outs).cause = "continue" THEN <<>>
          ELSE <<RowWarning(row_num, Head(outs).cause)>>)
             \o Warnings(Tail(outs), row_num + 1)

ParseResult(transactions, account_name, institution, warnings) ==
    [raised |-> FALSE, exc |-> "",
     transactions |-> transactions, account_name |-> account_name,
     institution |-> institution, warnings |-> warnings]

ParseRaised(exc) ==
    [raised |-> TRUE, exc |-> exc,
     transactions |-> <<>>, account_name |-> "", institution |-> <<>>,
     warnings |-> <<>>]

Chase == <<"C","h","a","s","e">>

\* ChaseParser.parse.  account_type is assigned only after a row has been
\* parsed, so it is unbound when no row yields a transaction.
ChaseParse(file) ==
    LET is_credit   == FirstThreeIn(CREDIT_HEADERS, FieldNames(file))
        is_checking == FirstThreeIn(CHECKING_HEADERS, FieldNames(file))
        rows        == DictRows(file)
        outs        == [i \in 1..Len(rows) |->
                           IF is_credit THEN ParseCreditRow(rows[i])
                           ELSE ParseCheckingRow(rows[i])]
        stem        == Lower(file.stem)
    IN  IF ~(is_credit \/ is_checking) THEN ParseRaised("ValueError")
        ELSE IF Transactions(outs) = <<>> THEN ParseRaised("UnboundLocalError")
        ELSE ParseResult(
                 Transactions(outs),
                 IF Contains(stem, <<"c","h","e","c","k","i","n","g">>)
                 THEN "Chase Checking"
                 ELSE IF \/ Contains(stem, <<"c","r","e","d","i","t">>)
                         \/ Contains(stem, <<"c","a","r","d">>)
                 THEN "Chase Credit Card"
                 ELSE IF is_credit THEN "Chase Credit" ELSE "Chase Checking",
                 Chase,
                 Warnings(outs, 2))

\* ------------------------------------------------------------------------
\* parsers/apple.py
\* ------------------------------------------------------------------------

APPLE_REQUIRED_HEADERS ==
    <<"Transaction Date", "Clearing Date", "Description", "Merchant",
      "Category", "Type", "Amount (USD)">>

AppleCanParse(file) ==
    /\ file.suffix = ".csv"
    /\ \A i \in 1..Len(APPLE_REQUIRED_HEADERS) :
           APPLE_REQUIRED_HEADERS[i] \in Range(FieldNames(file))

Purchase == <<"P","u","r","c","h","a","s","e">>

\* AppleCardParser._parse_row
AppleParseRow(row) ==
    IF "Transaction Date" \notin DOMAIN row THEN Raised("KeyError")
    ELSE IF row["Transaction Date"] = NoneStr THEN Raised("TypeError")
    ELSE IF Strptime(row["Transaction Date"]) = DateInvalid THEN Raised("ValueError")
    ELSE IF "Amount (USD)" \notin DOMAIN row THEN Raised("KeyError")
    ELSE IF row["Amount (USD)"] = NoneStr THEN Raised("AttributeError")
    ELSE LET parsed == Decimal(RemoveChar(row["Amount (USD)"], ","))
             amount == IF Get(row, "Type", <<>>) = Purchase
                       THEN Neg(parsed) ELSE parsed
         IN  IF ~parsed.ok THEN Raised("InvalidOperation")
             ELSE IF "Description" \notin DOMAIN row THEN Raised("KeyError")
             ELSE IF Get(row, "Merchant", <<>>) = NoneStr THEN Raised("AttributeError")
             ELSE IF Get(row, "Category", <<>>) = NoneStr THEN Raised("AttributeError")
             ELSE Parsed(Strptime(row["Transaction Date"]), amount,
                         row["Description"],
                         StripOrNone(Get(row, "Merchant", <<>>)),
                         StripOrNone(Get(row, "Category", <<>>)))

Apple == <<"A","p","p","l","e">>

\* AppleCardParser.parse
AppleParse(file) ==
    LET rows == DictRows(file)
        outs == [i \in 1..Len(rows) |-> AppleParseRow(rows[i])]
    IN  ParseResult(Transactions(outs), "Apple Card", Apple, Warnings(outs, 2))

\* ------------------------------------------------------------------------
\* parsers/venmo.py
\* ------------------------------------------------------------------------

VENMO_REQUIRED_HEADERS == <<"Datetime", "Type", "Status", "Amount (total)">>

\* range(10): the lines can_parse reads
VenmoScanLines == 10

\* `"Datetime" in line and "Amount (total)" in line` for the header line;
\* no metadata line holds a column name
IsVenmoHeaderLine(headers) ==
    "Datetime" \in Range(headers) /\ "Amount (total)" \in Range(headers)

VenmoCanParse(file) ==
    /\ file.suffix = ".csv"
    /\ Len(file.preamble) < VenmoScanLines
    /\ IsVenmoHeaderLine(file.headers)
    /\ \A i \in 1..Len(VENMO_REQUIRED_HEADERS) :
           VENMO_REQUIRED_HEADERS[i] \in Range(file.headers)

Complete == <<"C","o","m","p","l","e","t","e">>

StandardTransfer ==
    <<"S","t","a","n","d","a","r","d"," ","T","r","a","n","s","f","e","r">>

Charge == <<"C","h","a","r","g","e">>

\* f"{x}" of a text or None
Fmt(x) == IF x = NoneStr THEN <<"N","o","n","e">> ELSE x

\* amount_str after the currency sign and the separators are removed
VenmoAmount(text) ==
    LET amount_str == Strip(RemoveChar(RemoveChar(Strip(text), "$"), ","))
    IN  IF StartsWith(amount_str, <<"+">>) THEN Decimal(Strip(Tail(amount_str)))
        ELSE IF StartsWith(amount_str, <<"-">>)
             THEN LET d == Decimal(Strip(Tail(amount_str)))
                  IN  IF d.ok THEN Neg(d) ELSE d
        ELSE Decimal(amount_str)

\* VenmoParser._parse_row
VenmoParseRow(row) ==
    IF "Datetime" \notin DOMAIN row THEN Raised("KeyError")
    ELSE IF row["Datetime"] = NoneStr THEN Raised("TypeError")
    ELSE IF FromIsoformat(row["Datetime"]) = DateInvalid THEN Raised("ValueError")
    ELSE IF "Amount (total)" \notin DOMAIN row THEN Raised("KeyError")
    ELSE IF row["Amount (total)"] = NoneStr THEN Raised("AttributeError")
    ELSE LET parsed    == VenmoAmount(row["Amount (total)"])
             txn_type  == Get(row, "Type", <<>>)
             from_user == Get(row, "From", <<>>)
             to_user   == Get(row, "To", <<>>)
             amount    == IF txn_type = Charge THEN Neg(parsed) ELSE parsed
             note      == Get(row, "Note", <<>>)
             user      == IF IsNegative(amount) THEN to_user ELSE from_user
         IN  IF ~parsed.ok THEN Raised("InvalidOperation")
             ELSE IF note = NoneStr THEN Raised("AttributeError")
             \* amount < 0 on a NaN
             ELSE IF amount.nan THEN Raised("InvalidOperation")
             ELSE Parsed(FromIsoformat(row["Datetime"]), amount,
                         IF Strip(note) # <<>> THEN Strip(note)
                         ELSE IF IsPositive(amount)
                              THEN <<"P","a","y","m","e","n","t"," ","f","r","o","m"," ">>
                                       \o Fmt(from_user)
                              ELSE <<"P","a","y","m","e","n","t"," ","t","o"," ">>
                                       \o Fmt(to_user),
                         IF user = NoneStr \/ user = <<>> THEN NoneStr ELSE Strip(user),
                         txn_type)

\* a loop body that parses the row before it looks at Status and Type
VenmoLoopRowParseFirst(row) ==
    IF ~VenmoParseRow(row).ok THEN VenmoParseRow(row)
    ELSE IF Get(row, "Status", NoneStr) # Complete THEN Raised("continue")
    ELSE IF Get(row, "Type", <<>>) = StandardTransfer THEN Raised("continue")
    ELSE VenmoParseRow(row)

\* one pass of the loop body of VenmoParser.parse
VenmoLoopRow(row) ==
    IF Get(row, "Status", NoneStr) # Complete THEN Raised("continue")
    ELSE IF Get(row, "Type", <<>>) = StandardTransfer THEN Raised("continue")
    ELSE VenmoParseRow(row)

Venmo == <<"V","e","n","m","o">>

\* VenmoParser.parse.  header_idx is the number of metadata lines when the
\* header line is found, and stays 0 otherwise.
VenmoParse(file) ==
    LET found      == IsVenmoHeaderLine(file.headers)
        header_idx == IF found THEN Len(file.preamble) ELSE 0
        data       == NonEmptyRows(file.rows)
        rows       == IF found
                      THEN [i \in 1..Len(data) |-> RowDict(file.headers, data[i])]
                      ELSE DictRows(file)
        outs       == [i \in 1..Len(rows) |-> VenmoLoopRow(rows[i])]
    IN  IF ~found /\ (file.preamble # <<>> \/ "Datetime" \notin Range(file.headers))
        THEN ParseRaised("ValueError")
        ELSE ParseResult(Transactions(outs), "Venmo", Venmo,
                         Warnings(outs, header_idx + 2))

\* ------------------------------------------------------------------------
\* database.py: the store and its seed data
\* ------------------------------------------------------------------------

SEED_CATEGORIES ==
    <<"Income",
      "Housing",
      "Transportation",
      "Food",
      "Shopping",
      "Entertainment",
      "Health",
      "Financial",
      "Transfers",
      "Uncategorized">>

SEED_SUBCATEGORIES ==
    <<[parent |-> "Income", names |-> <<"Salary", "Freelance", "Refunds", "Interest">>],
      [parent |-> "Housing", names |-> <<"Rent/Mortgage", "Utilities", "Home Insurance", "Maintenance">>],
      [parent |-> "Transportation", names |-> <<"Gas", "Public Transit", "Rideshare", "Car Insurance", "Parking">>],
      [parent |-> "Food", names |-> <<"Groceries", "Dining Out", "Coffee", "Alcohol">>],
      [parent |-> "Shopping", names |-> <<"Clothing", "Electronics", "Home Goods", "Gifts">>],
      [parent |-> "Entertainment", names |-> <<"Subscriptions", "Events", "Hobbies", "Travel">>],
      [parent |-> "Health", names |-> <<"Medical", "Pharmacy", "Fitness", "Personal Care">>],
      [parent |-> "Financial", names |-> <<"Investments", "Fees", "Taxes">>]>>

SEED_RULES ==
    <<[pattern |-> <<"W","H","O","L","E"," ","F","O","O","D","S">>,
       category |-> "Groceries", priority |-> 10],
      [pattern |-> <<"T","R","A","D","E","R"," ","J","O","E">>,
       category |-> "Groceries", priority |-> 10],
      [pattern |-> <<"K","R","O","G","E","R">>,
       category |-> "Groceries", priority |-> 10],
      [pattern |-> <<"S","A","F","E","W","A","Y">>,
       category |-> "Groceries", priority |-> 10],
      [pattern |-> <<"T","A","R","G","E","T">>,
       category |-> "Shopping", priority |-> 5],
      [pattern |-> <<"C","O","S","T","C","O">>,
       category |-> "Groceries", priority |-> 10],
      [pattern |-> <<"A","L","D","I">>,
       category |-> "Groceries", priority |-> 10],
      [pattern |-> <<"D","O","O","R","D","A","S","H">>,
       category |-> "Dining Out", priority |-> 10],
      [pattern |-> <<"U","B","E","R"," ","E","A","T","S">>,
       category |-> "Dining Out", priority |-> 10],
      [pattern |-> <<"G","R","U","B","H","U","B">>,
       category |-> "Dining Out", priority |-> 10],
      [pattern |-> <<"M","C","D","O","N","A","L","D">>,
       category |-> "Dining Out", priority |-> 10],
      [pattern |-> <<"S","T","A","R","B","U","C","K","S">>,
       category |-> "Coffee", priority |-> 10],
      [pattern |-> <<"D","U","N","K","I","N">>,
       category |-> "Coffee", priority |-> 10],
      [pattern |-> <<"U","B","E","R"," ","T","R","I","P">>,
       category |-> "Rideshare", priority |-> 10],
      [pattern |-> <<"L","Y","F","T">>,
       category |-> "Rideshare", priority |-> 10],
      [pattern |-> <<"S","H","E","L","L">>,
       category |-> "Gas", priority |-> 10],
      [pattern |-> <<"C","H","E","V","R","O","N">>,
       category |-> "Gas", priority |-> 10],
      [pattern |-> <<"E","X","X","O","N">>,
       category |-> "Gas", priority |-> 10],
      [pattern |-> <<"B","P"," ">>,
       category |-> "Gas", priority |-> 10],
      [pattern |-> <<"S","P","O","T","I","F","Y">>,
       category |-> "Subscriptions", priority |-> 10],
      [pattern |-> <<"N","E","T","F","L","I","X">>,
       category |-> "Subscriptions", priority |-> 10],
      [pattern |-> <<"A","P","P","L","E",".","C","O","M","/","B","I","L","L">>,
       category |-> "Subscriptions", priority |-> 10],
      [pattern |-> <<"A","M","A","Z","O","N"," ","P","R","I","M","E">>,
       category |-> "Subscriptions", priority |-> 10],
      [pattern |-> <<"H","B","O"," ","M","A","X">>,
       category |-> "Subscriptions", priority |-> 10],
      [pattern |-> <<"H","U","L","U">>,
       category |-> "Subscriptions", priority |-> 10],
      [pattern |-> <<"V","A","N","G","U","A","R","D">>,
       category |-> "Investments", priority |-> 10],
      [pattern |-> <<"T","R","A","N","S","F","E","R"," ","T","O">>,
       category |-> "Transfers", priority |-> 10],
      [pattern |-> <<"T","R","A","N","S","F","E","R"," ","F","R","O","M">>,
       category |-> "Transfers", priority |-> 10],
      [pattern |-> <<"Z","E","L","L","E">>,
       category |-> "Transfers", priority |-> 10]>>

\* the category names in the order init_database inserts them; the id of a
\* category is its position
RECURSIVE SubcategoryNames(_)
SubcategoryNames(subs) ==
    IF subs = <<>> THEN <<>>
    ELSE Head(subs).names \o SubcategoryNames(Tail(subs))

SeededCategories == SEED_CATEGORIES \o SubcategoryNames(SEED_SUBCATEGORIES)

\* all_categories[name]: the dict built from "SELECT id, name FROM
\* categories" keeps the last id of a name
CategoryIdByName(cats, name) ==
    CHOOSE i \in 1..Len(cats) :
        cats[i] = name /\ \A j \in (i + 1)..Len(cats) : cats[j] # name

\* the rules init_database inserts: a seed rule whose category is unknown is
\* left out
RECURSIVE SeededRulesFrom(_, _, _)
SeededRulesFrom(seed, cats, next_id) ==
    IF seed = <<>> THEN <<>>
    ELSE IF Head(seed).category \in Range(cats)
         THEN <<[id |-> next_id, pattern |-> Head(seed).pattern,
                 category_id |-> CategoryIdByName(cats, Head(seed).category),
                 priority |-> Head(seed).priority]>>
                  \o SeededRulesFrom(Tail(seed), cats, next_id + 1)
         ELSE SeededRulesFrom(Tail(seed), cats, next_id)

SeededRules == SeededRulesFrom(SEED_RULES, SeededCategories, 1)

\* generate_import_hash.  The SHA-256 digest is taken as collision free: the
\* digest of a text is represented by the text that is hashed.
generate_import_hash(date, amount, description, source) ==
    date \o <<"|">> \o amount \o <<"|">> \o Fmt(description) \o <<"|">> \o source

\* ------------------------------------------------------------------------
\* services/category_service.py
\* ------------------------------------------------------------------------

\* the rules whose pattern is in the description, both upper-cased
MatchingRules(rules, description) ==
    {i \in 1..Len(rules) : Contains(Upper(description), Upper(rules[i].pattern))}

\* a scan of the rules newest first ("ORDER BY id DESC")
categorize_newest_first(rules, description) ==
    LET hits == MatchingRules(rules, description)
        top  == {i \in hits : \A j \in hits : rules[j].id <= rules[i].id}
    IN  IF hits = {} THEN {NoId} ELSE {rules[i].category_id : i \in top}

\* categorize_transaction: the category of the first matching rule of
\* "ORDER BY priority DESC".  The order of rules of equal priority is left to
\* the store, so every matching rule of the highest priority may come first.
\* {NoId} stands for the result None.
categorize_transaction(rules, description) ==
    LET hits == MatchingRules(rules, description)
        top  == {i \in hits : \A j \in hits : rules[j].priority <= rules[i].priority}
    IN  IF hits = {} THEN {NoId} ELSE {rules[i].category_id : i \in top}

\* get_uncategorized_category_id: "LIMIT 1" without an order returns any of
\* the rows named Uncategorized; {} stands for the ValueError
get_uncategorized_category_id(cats) ==
    {i \in 1..Len(cats) : cats[i] = "Uncategorized"}

\* ------------------------------------------------------------------------
\* The files offered for import
\* ------------------------------------------------------------------------

CreditColumns ==
    <<"Transaction Date", "Post Date", "Description", "Category", "Type", "Amount">>

\* the two-row credit card export
ChaseCreditFile ==
    [name |-> "chase_credit.csv", stem |-> <<"c","h","a","s","e","_","c","r","e","d","i","t">>, suffix |-> ".csv",
     preamble |-> <<>>, headers |-> CreditColumns,
     rows |-> << <<<<"1","2","/","1","5","/","2","0","2","4">>, <<"1","2","/","1","6","/","2","0","2","4">>, <<"W","H","O","L","E"," ","F","O","O","D","S"," ","M","A","R","K","E","T">>, <<"G","r","o","c","e","r","i","e","s">>, <<"S","a","l","e">>, <<"-","4","5",".","2","3">>>>,
                 <<<<"1","2","/","1","4","/","2","0","2","4">>, <<"1","2","/","1","5","/","2","0","2","4">>, <<"S","T","A","R","B","U","C","K","S">>, <<"F","o","o","d"," ","&"," ","D","r","i","n","k">>, <<"S","a","l","e">>, <<"-","5",".","5","0">>>> >>]

\* a credit card export whose first amount is not a number
ChaseNanFile ==
    [name |-> "activity.csv", stem |-> <<"a","c","t","i","v","i","t","y">>, suffix |-> ".csv",
     preamble |-> <<>>, headers |-> CreditColumns,
     rows |-> << <<<<"1","2","/","1","5","/","2","0","2","4">>, <<"1","2","/","1","6","/","2","0","2","4">>, <<"C","O","R","N","E","R"," ","S","H","O","P">>, <<>>, <<"S","a","l","e">>, <<"N","a","N">>>>,
                 <<<<"1","2","/","1","6","/","2","0","2","4">>, <<"1","2","/","1","7","/","2","0","2","4">>, <<"C","O","R","N","E","R"," ","S","H","O","P">>, <<>>, <<"S","a","l","e">>, <<"-","1",".","0","0">>>> >>]

\* a credit card export with the header line only
ChaseEmptyFile ==
    [name |-> "empty.csv", stem |-> <<"e","m","p","t","y">>, suffix |-> ".csv",
     preamble |-> <<>>, headers |-> CreditColumns, rows |-> <<>>]

\* an Apple Card export: a purchase, and a row with an unreadable date
AppleFile ==
    [name |-> "apple.csv", stem |-> <<"a","p","p","l","e">>, suffix |-> ".csv",
     preamble |-> <<>>,
     headers |-> <<"Transaction Date", "Clearing Date", "Description",
                   "Merchant", "Category", "Type", "Amount (USD)">>,
     rows |-> << <<<<"1","2","/","1","5","/","2","0","2","4">>, <<"1","2","/","1","6","/","2","0","2","4">>, <<"B","O","O","K","S","H","O","P">>, <<"B","o","o","k","s","h","o","p">>, <<"S","h","o","p","p","i","n","g">>, <<"P","u","r","c","h","a","s","e">>, <<"1","2",".","3","4">>>>,
                 <<<<"1","5","/","1","2","/","2","0","2","4">>, <<"1","2","/","1","6","/","2","0","2","4">>, <<"B","O","O","K","S","H","O","P">>, <<"B","o","o","k","s","h","o","p">>, <<"S","h","o","p","p","i","n","g">>, <<"P","u","r","c","h","a","s","e">>, <<"1",".","0","0">>>> >>]

\* a Venmo export: two metadata lines, a completed payment, a pending one
VenmoFile ==
    [name |-> "venmo.csv", stem |-> <<"v","e","n","m","o">>, suffix |-> ".csv",
     preamble |-> <<"Account Statement", "Account Activity">>,
     headers |-> <<"ID", "Datetime", "Type", "Status", "Note", "From", "To",
                   "Amount (total)">>,
     rows |-> << <<<<"1">>, <<"2","0","2","4","-","1","2","-","1","5","T","1","4",":","3","0",":","0","0">>, <<"P","a","y","m","e","n","t">>, <<"C","o","m","p","l","e","t","e">>, <<>>, <<"A","n","n">>, <<"B","o","b">>, <<"-"," ","$","2","5",".","0","0">>>>,
                 <<<<"2">>, <<"2","0","2","4","-","1","2","-","1","6","T","0","9",":","0","0",":","0","0">>, <<"P","a","y","m","e","n","t">>, <<"P","e","n","d","i","n","g">>, <<>>, <<"A","n","n">>, <<"B","o","b">>, <<"-"," ","$","5",".","0","0">>>> >>]

\* a file no parser knows
UnknownFile ==
    [name |-> "notes.csv", stem |-> <<"n","o","t","e","s">>, suffix |-> ".csv",
     preamble |-> <<>>, headers |-> <<"Date", "Memo">>,
     rows |-> << <<<<"1","2","/","1","5","/","2","0","2","4">>, <<"h","e","l","l","o">>>> >>]

Files ==
    {ChaseCreditFile, ChaseNanFile, ChaseEmptyFile, AppleFile, VenmoFile,
     UnknownFile}

\* a credit card export with one purchase written as -5.5 and as -5.50
AmountTextFile ==
    [name |-> "amounts.csv", stem |-> <<"a","m","o","u","n","t","s">>, suffix |-> ".csv",
     preamble |-> <<>>, headers |-> CreditColumns,
     rows |-> << <<<<"1","2","/","1","4","/","2","0","2","4">>, <<"1","2","/","1","5","/","2","0","2","4">>, <<"S","T","A","R","B","U","C","K","S">>, <<>>, <<"S","a","l","e">>, <<"-","5",".","5">>>>,
           <<<<"1","2","/","1","4","/","2","0","2","4">>, <<"1","2","/","1","5","/","2","0","2","4">>, <<"S","T","A","R","B","U","C","K","S">>, <<>>, <<"S","a","l","e">>, <<"-","5",".","5","0">>>> >>]

\* a credit card export whose first row has no valid date and whose second
\* row has the amount NaN
ChaseMixedFile ==
    [name |-> "mixed.csv", stem |-> <<"m","i","x","e","d">>, suffix |-> ".csv",
     preamble |-> <<>>, headers |-> CreditColumns,
     rows |-> << <<<<"1","5","/","1","2","/","2","0","2","4">>, <<"1","2","/","1","6","/","2","0","2","4">>, <<"C","O","R","N","E","R"," ","S","H","O","P">>, <<>>, <<"S","a","l","e">>, <<"-","2",".","0","0">>>>,
           <<<<"1","2","/","1","6","/","2","0","2","4">>, <<"1","2","/","1","7","/","2","0","2","4">>, <<"C","O","R","N","E","R"," ","S","H","O","P">>, <<>>, <<"S","a","l","e">>, <<"N","a","N">>>>,
           <<<<"1","2","/","1","7","/","2","0","2","4">>, <<"1","2","/","1","8","/","2","0","2","4">>, <<"C","O","R","N","E","R"," ","S","H","O","P">>, <<>>, <<"S","a","l","e">>, <<"-","3",".","0","0">>>> >>]

\* a credit card export whose only row has no valid date
ChaseBadFile ==
    [name |-> "bad.csv", stem |-> <<"b","a","d">>, suffix |-> ".csv",
     preamble |-> <<>>, headers |-> CreditColumns,
     rows |-> << <<<<"1","5","/","1","2","/","2","0","2","4">>, <<"1","2","/","1","6","/","2","0","2","4">>, <<"C","O","R","N","E","R"," ","S","H","O","P">>, <<>>, <<"S","a","l","e">>, <<"-","2",".","0","0">>>> >>]

\* an export with the columns of a Chase credit card and of an Apple Card
ChaseAppleFile ==
    [name |-> "both.csv", stem |-> <<"b","o","t","h">>, suffix |-> ".csv",
     preamble |-> <<>>,
     headers |-> <<"Transaction Date", "Post Date", "Clearing Date",
                   "Description", "Merchant", "Category", "Type", "Amount",
                   "Amount (USD)">>,
     rows |-> << <<<<"1","2","/","1","5","/","2","0","2","4">>, <<"1","2","/","1","6","/","2","0","2","4">>, <<"1","2","/","1","6","/","2","0","2","4">>, <<"B","O","O","K","S","H","O","P">>, <<"B","o","o","k","s","h","o","p">>, <<"S","h","o","p","p","i","n","g">>, <<"P","u","r","c","h","a","s","e">>, <<"-","1","2",".","3","4">>, <<"1","2",".","3","4">>>> >>]

\* a credit card export with the same purchase on three of its four rows
DuplicateRowsFile ==
    [name |-> "twice.csv", stem |-> <<"t","w","i","c","e">>, suffix |-> ".csv",
     preamble |-> <<>>, headers |-> CreditColumns,
     rows |-> << <<<<"1","2","/","1","4","/","2","0","2","4">>, <<"1","2","/","1","5","/","2","0","2","4">>, <<"S","T","A","R","B","U","C","K","S">>, <<>>, <<"S","a","l","e">>, <<"-","5",".","5","0">>>>,
           <<<<"1","2","/","1","5","/","2","0","2","4">>, <<"1","2","/","1","6","/","2","0","2","4">>, <<"C","O","R","N","E","R"," ","S","H","O","P">>, <<>>, <<"S","a","l","e">>, <<"-","2",".","0","0">>>>,
           <<<<"1","2","/","1","4","/","2","0","2","4">>, <<"1","2","/","1","5","/","2","0","2","4">>, <<"S","T","A","R","B","U","C","K","S">>, <<>>, <<"S","a","l","e">>, <<"-","5",".","5","0">>>>,
           <<<<"1","2","/","1","4","/","2","0","2","4">>, <<"1","2","/","1","5","/","2","0","2","4">>, <<"S","T","A","R","B","U","C","K","S">>, <<>>, <<"S","a","l","e">>, <<"-","5",".","5","0">>>> >>]

FormatFiles ==
    {AmountTextFile, ChaseMixedFile, ChaseBadFile, ChaseAppleFile,
     DuplicateRowsFile}

\* the checking export of test_chase_checking_parsing
ChaseCheckingFile ==
    [name |-> "checking.csv", stem |-> <<"c","h","e","c","k","i","n","g">>, suffix |-> ".csv",
     preamble |-> <<>>,
     headers |-> <<"Details", "Posting Date", "Description", "Amount", "Type",
                   "Balance", "Check or Slip #">>,
     rows |-> << <<<<"D","E","B","I","T">>, <<"1","2","/","1","5","/","2","0","2","4">>, <<"Z","E","L","L","E"," ","T","O"," ","J","O","H","N"," ","D","O","E">>, <<"-","1","0","0",".","0","0">>, <<"A","C","H","_","D","E","B","I","T">>, <<"1","2","3","4",".","5","6">>, <<>>>>,
           <<<<"C","R","E","D","I","T">>, <<"1","2","/","1","6","/","2","0","2","4">>, <<"P","A","Y","C","H","E","C","K">>, <<"2","0","0","0",".","0","0">>, <<"A","C","H","_","C","R","E","D","I","T">>, <<"3","2","3","4",".","5","6">>, <<>>>> >>]

\* a Venmo export: a payment sent, a charge, a pending row and a bank
\* transfer whose date and amount cannot be read, a payment of zero, and a
\* completed payment whose date cannot be read
VenmoMixFile ==
    [name |-> "venmo_mix.csv", stem |-> <<"v","e","n","m","o","_","m","i","x">>, suffix |-> ".csv",
     preamble |-> <<"Account Statement", "Account Activity">>,
     headers |-> <<"ID", "Datetime", "Type", "Status", "Note", "From", "To",
                   "Amount (total)">>,
     rows |-> << <<<<"1">>, <<"2","0","2","4","-","1","2","-","1","5","T","1","4",":","3","0",":","0","0">>, <<"P","a","y","m","e","n","t">>, <<"C","o","m","p","l","e","t","e">>, <<>>, <<"A","n","n">>, <<"B","o","b">>, <<"-"," ","$","2","5",".","0","0">>>>,
           <<<<"2">>, <<"2","0","2","4","-","1","2","-","1","6","T","0","9",":","0","0",":","0","0">>, <<"C","h","a","r","g","e">>, <<"C","o","m","p","l","e","t","e">>, <<>>, <<"A","n","n">>, <<"B","o","b">>, <<"-"," ","$","1","0",".","0","0">>>>,
           <<<<"3">>, <<"s","o","o","n">>, <<"P","a","y","m","e","n","t">>, <<"P","e","n","d","i","n","g">>, <<>>, <<"A","n","n">>, <<"B","o","b">>, <<"n","/","a">>>>,
           <<<<"4">>, <<>>, <<"S","t","a","n","d","a","r","d"," ","T","r","a","n","s","f","e","r">>, <<"C","o","m","p","l","e","t","e">>, <<>>, <<>>, <<>>, <<"n","/","a">>>>,
           <<<<"5">>, <<"2","0","2","4","-","1","2","-","1","7","T","1","0",":","0","0",":","0","0">>, <<"P","a","y","m","e","n","t">>, <<"C","o","m","p","l","e","t","e">>, <<>>, <<"A","n","n">>, <<"B","o","b">>, <<"$","0",".","0","0">>>>,
           <<<<"6">>, <<"s","o","o","n">>, <<"P","a","y","m","e","n","t">>, <<"C","o","m","p","l","e","t","e">>, <<>>, <<"A","n","n">>, <<"B","o","b">>, <<"-"," ","$","1",".","0","0">>>> >>]

\* an Apple Card export: a purchase, a purchase shown with a negative
\* amount, a payment and a credit
AppleTypesFile ==
    [name |-> "apple_types.csv", stem |-> <<"a","p","p","l","e","_","t","y","p","e","s">>, suffix |-> ".csv",
     preamble |-> <<>>,
     headers |-> <<"Transaction Date", "Clearing Date", "Description",
                   "Merchant", "Category", "Type", "Amount (USD)">>,
     rows |-> << <<<<"1","2","/","1","5","/","2","0","2","4">>, <<"1","2","/","1","6","/","2","0","2","4">>, <<"B","O","O","K","S","H","O","P">>, <<"B","o","o","k","s","h","o","p">>, <<"S","h","o","p","p","i","n","g">>, <<"P","u","r","c","h","a","s","e">>, <<"1","2",".","3","4">>>>,
           <<<<"1","2","/","1","6","/","2","0","2","4">>, <<"1","2","/","1","7","/","2","0","2","4">>, <<"B","O","O","K","S","H","O","P">>, <<"B","o","o","k","s","h","o","p">>, <<"S","h","o","p","p","i","n","g">>, <<"P","u","r","c","h","a","s","e">>, <<"-","1","2",".","3","4">>>>,
           <<<<"1","2","/","1","7","/","2","0","2","4">>, <<"1","2","/","1","8","/","2","0","2","4">>, <<"A","C","H"," ","D","E","P","O","S","I","T">>, <<>>, <<"P","a","y","m","e","n","t">>, <<"P","a","y","m","e","n","t">>, <<"-","5","0",".","0","0">>>>,
           <<<<"1","2","/","1","8","/","2","0","2","4">>, <<"1","2","/","1","9","/","2","0","2","4">>, <<"B","O","O","K","S","H","O","P">>, <<"B","o","o","k","s","h","o","p">>, <<"C","r","e","d","i","t">>, <<"C","r","e","d","i","t">>, <<"5",".","0","0">>>> >>]

\* files given to the parsers only
ParserFiles == {ChaseCheckingFile, VenmoMixFile, AppleTypesFile}

AllFiles == Files \cup FormatFiles \cup ParserFiles

\* ------------------------------------------------------------------------
\* services/import_service.py
\* ------------------------------------------------------------------------

PARSERS == <<"ChaseParser", "VenmoParser", "AppleCardParser">>

CanParse(parser, file) ==
    CASE parser = "ChaseParser"     -> ChaseCanParse(file)
      [] parser = "VenmoParser"     -> VenmoCanParse(file)
      [] parser = "AppleCardParser" -> AppleCanParse(file)

Parse(parser, file) ==
    CASE parser = "ChaseParser"     -> ChaseParse(file)
      [] parser = "VenmoParser"     -> VenmoParse(file)
      [] parser = "AppleCardParser" -> AppleParse(file)

NoParser == "None"

\* the last parser of the registry that accepts the file
detect_parser_last(file) ==
    IF \E i \in 1..Len(PARSERS) : CanParse(PARSERS[i], file)
    THEN PARSERS[CHOOSE i \in 1..Len(PARSERS) :
                     /\ CanParse(PARSERS[i], file)
                     /\ \A j \in (i + 1)..Len(PARSERS) : ~CanParse(PARSERS[j], file)]
    ELSE NoParser

\* a detect_parser that falls back on the last registered parser when none
\* accepts the file
detect_parser_fallback(file) ==
    IF \E i \in 1..Len(PARSERS) : CanParse(PARSERS[i], file)
    THEN PARSERS[CHOOSE i \in 1..Len(PARSERS) :
                     /\ CanParse(PARSERS[i], file)
                     /\ \A j \in 1..(i - 1) : ~CanParse(PARSERS[j], file)]
    ELSE PARSERS[Len(PARSERS)]

\* detect_parser: the first parser of the registry that accepts the file
detect_parser(file) ==
    IF \E i \in 1..Len(PARSERS) : CanParse(PARSERS[i], file)
    THEN PARSERS[CHOOSE i \in 1..Len(PARSERS) :
                     /\ CanParse(PARSERS[i], file)
                     /\ \A j \in 1..(i - 1) : ~CanParse(PARSERS[j], file)]
    ELSE NoParser

\* a fingerprint over the institution as the parser spells it
ImportHashCaseSensitive(txn, institution) ==
    generate_import_hash(DateStr(txn.date), DecimalStr(txn.amount),
                         txn.description, institution)

\* the fingerprint import_transaction computes for a parsed transaction of
\* an institution
ImportHash(txn, institution) ==
    generate_import_hash(DateStr(txn.date), DecimalStr(txn.amount),
                         txn.description, Lower(institution))

\* f"Transaction {idx} ({txn.date} ${txn.amount}): {e}"
RowError(idx, txn, cause) ==
    [kind |-> "Transaction", n |-> idx, cause |-> cause]

\* a status that looks at the imported count before the errors
ImportStatusByCount(errors, imported) ==
    IF imported > 0 THEN "success"
    ELSE IF errors = <<>> THEN "success" ELSE "failed"

\* status = "success" if not errors else "partial" if imported > 0 else "failed"
ImportStatus(errors, imported) ==
    IF errors = <<>> THEN "success"
    ELSE IF imported > 0 THEN "partial" ELSE "failed"

\* ------------------------------------------------------------------------
\* State
\* ------------------------------------------------------------------------

\* connections that run import_file (one per upload request)
Procs == {1, 2}

\* import_file calls begun, at most
MaxCalls == 2

\* requests that edit a category or a transaction's category, at most
MaxEdits == 1

NoProc == 0

VARIABLES
    accounts,       \* table accounts: rows in id order, the id is the position
    categories,     \* table categories: names in id order
    category_rules, \* table category_rules: rows with their id
    transactions,   \* table transactions, committed rows, id is the position
    imports,        \* table imports
    pending,        \* per connection: transaction rows inserted, not committed
    writer,         \* the connection holding the store's write lock
    call,           \* per connection: the locals of its import_file call
    calls,          \* import_file calls begun
    edits,          \* edit requests served
    since,          \* history: name of the file whose import returned last,
                    \* while nothing has written to the store since ("" else)
    rerun,          \* history, per connection: its call began right after an
                    \* import of the same file returned, and only this call
                    \* has written to the store since
    reply           \* what the last request other than an import was given
                    \* and what it returned

vars == <<accounts, categories, category_rules, transactions, imports, pending,
          writer, call, calls, edits, since, rerun, reply>>

store == <<accounts, categories, category_rules, transactions, imports>>

NoResult == ParseRaised("")

\* seq alternates between 0 and 1 from one reply to the next
NoReply == [op |-> "", given |-> <<>>, value |-> <<>>, seq |-> 0]

IdleCall ==
    [pc |-> "idle", file |-> "", parser |-> NoParser, result |-> NoResult,
     account_id |-> NoId, idx |-> 0, imported |-> 0, duplicates |-> 0,
     errors |-> <<>>, category_id |-> NoId, status |-> "", exc |-> "",
     summary_errors |-> <<>>, recorded |-> 0]

Init ==
    /\ accounts = <<>>
    /\ categories = SeededCategories
    /\ category_rules = SeededRules
    /\ transactions = <<>>
    /\ imports = <<>>
    /\ pending = [p \in Procs |-> <<>>]
    /\ writer = NoProc
    /\ call = [p \in Procs |-> IdleCall]
    /\ calls = 0
    /\ edits = 0
    /\ since = ""
    /\ rerun = [p \in Procs |-> FALSE]
    /\ reply = NoReply

\* history: connection p (NoProc: an edit request) writes to the store
Disturb(p) ==
    /\ since' = ""
    /\ rerun' = [q \in Procs |-> q = p /\ rerun[q]]

Quiet == UNCHANGED <<since, rerun>>

\* the rows another connection would see: the committed ones only
VisibleCommitted(p) == transactions

\* the rows a statement of connection p sees
Visible(p) == transactions \o pending[p]

\* a write of connection p waits while another connection holds the lock
LockFree(p) == writer \in {NoProc, p}

Txn(p) == call[p].result.transactions[call[p].idx]

\* the loop of import_file: continue with the next row, or leave the loop
NextRow(c) ==
    IF c.idx < Len(c.result.transactions)
    THEN [c EXCEPT !.idx = c.idx + 1, !.pc = "row_check"]
    ELSE [c EXCEPT !.pc = "commit"]

\* except Exception as e: errors.append(...), then the next row
RowFailedAbort(c, cause) ==
    [c EXCEPT !.errors = Append(c.errors, RowError(c.idx, c.result.transactions[c.idx], cause)),
              !.pc = "commit"]

\* a row that failed is passed over without an entry in errors
RowFailedSilent(c, cause) == NextRow(c)

RowFailed(c, cause) ==
    NextRow([c EXCEPT !.errors =
        Append(c.errors, RowError(c.idx, c.result.transactions[c.idx], cause))])

\* detect_parser(file_path) and parser.parse(file_path) of every file, worked
\* out once
DetectedParser == [f \in AllFiles |-> detect_parser(f)]

ParsedFile ==
    [f \in AllFiles |->
        IF DetectedParser[f] = NoParser THEN NoResult
        ELSE Parse(DetectedParser[f], f)]

\* import_file, lines 153-167: detect, parse; the loop starts at once when
\* the caller gave an account id
ImportFile(p, file, account_id) ==
    LET parser == DetectedParser[file]
        result == ParsedFile[file]
        begun  == [IdleCall EXCEPT !.file = file.name, !.parser = parser]
    IN  /\ call[p].pc \in {"idle", "done", "raised"}
        /\ calls < MaxCalls
        /\ calls' = calls + 1
        /\ call' = [call EXCEPT ![p] =
               IF parser = NoParser
               THEN [begun EXCEPT !.pc = "raised", !.exc = "ValueError"]
               ELSE IF result.raised
               THEN [begun EXCEPT !.pc = "raised", !.exc = result.exc]
               ELSE IF account_id = NoId
               THEN [begun EXCEPT !.pc = "account_lookup", !.result = result]
               ELSE NextRow([begun EXCEPT !.result = result,
                                          !.account_id = account_id])]
        /\ rerun' = [rerun EXCEPT ![p] = (since = file.name)]
        /\ UNCHANGED <<store, pending, writer, edits, since, reply>>

\* a resolution that creates the account without looking it up
AccountLookupBlind(p) ==
    /\ call[p].pc = "account_lookup"
    /\ call' = [call EXCEPT ![p].pc = "account_insert"]
    /\ Quiet
    /\ UNCHANGED <<store, pending, writer, calls, edits, reply>>

\* get_or_create_account, lines 54-62
AccountLookup(p) ==
    LET r     == call[p].result
        found == {i \in 1..Len(accounts) :
                     /\ accounts[i].name = r.account_name
                     /\ accounts[i].institution = r.institution}
    IN  /\ call[p].pc = "account_lookup"
        /\ \/ /\ found = {}
              /\ call' = [call EXCEPT ![p].pc = "account_insert"]
           \/ \E i \in found :
                  call' = [call EXCEPT ![p] = NextRow([call[p] EXCEPT !.account_id = i])]
        /\ Quiet
        /\ UNCHANGED <<store, pending, writer, calls, edits, reply>>

\* get_or_create_account, lines 64-70: insert and commit
AccountInsert(p) ==
    LET r == call[p].result
    IN  /\ call[p].pc = "account_insert"
        /\ LockFree(p)
        /\ accounts' = Append(accounts,
               [name |-> r.account_name, institution |-> r.institution,
                account_type |-> NoneStr])
        /\ call' = [call EXCEPT ![p] =
               NextRow([call[p] EXCEPT !.account_id = Len(accounts) + 1])]
        /\ Disturb(p)
        /\ UNCHANGED <<categories, category_rules, transactions, imports,
                       pending, writer, calls, edits, reply>>

\* a row step without the SELECT on import_hash
RowCheckBlind(p) ==
    /\ call[p].pc = "row_check"
    /\ call' = [call EXCEPT ![p].pc = "row_categorize"]
    /\ Quiet
    /\ UNCHANGED <<store, pending, writer, calls, edits, reply>>

\* an import that writes the row it meets again over the stored one
\* (INSERT OR REPLACE), with the category the rules give it still to come
RowCheckOverwrite(p) ==
    LET h == ImportHash(Txn(p), call[p].result.institution)
        over(rows) == [i \in 1..Len(rows) |->
                          IF rows[i].import_hash = h
                          THEN [rows[i] EXCEPT !.category_id = NoId]
                          ELSE rows[i]]
    IN  /\ call[p].pc = "row_check"
        /\ call' = [call EXCEPT ![p] =
               IF \E i \in 1..Len(Visible(p)) : Visible(p)[i].import_hash = h
               THEN NextRow([call[p] EXCEPT !.duplicates = call[p].duplicates + 1])
               ELSE [call[p] EXCEPT !.pc = "row_categorize"]]
        /\ transactions' = over(transactions)
        /\ pending' = [pending EXCEPT ![p] = over(pending[p])]
        /\ Quiet
        /\ UNCHANGED <<accounts, categories, category_rules, imports, writer, calls, edits,
                       reply>>

\* import_transaction, lines 91-107: fingerprint and existence check
RowCheck(p) ==
    LET h == ImportHash(Txn(p), call[p].result.institution)
    IN  /\ call[p].pc = "row_check"
        /\ call' = [call EXCEPT ![p] =
               IF \E i \in 1..Len(Visible(p)) : Visible(p)[i].import_hash = h
               THEN NextRow([call[p] EXCEPT !.duplicates = call[p].duplicates + 1])
               ELSE [call[p] EXCEPT !.pc = "row_categorize"]]
        /\ Quiet
        /\ UNCHANGED <<store, pending, writer, calls, edits, reply>>

NoUncategorized == "Uncategorized category not found in database"

\* a categorisation that leaves the category empty when no rule matches
RowCategorizeNoFallback(p) ==
    /\ call[p].pc = "row_categorize"
    /\ IF Txn(p).description = NoneStr
       THEN call' = [call EXCEPT ![p] = RowFailed(call[p], "AttributeError")]
       ELSE \E c \in categorize_transaction(category_rules, Txn(p).description) :
               call' = [call EXCEPT ![p].category_id = c, ![p].pc = "row_insert"]
    /\ Quiet
    /\ UNCHANGED <<store, pending, writer, calls, edits, reply>>

\* import_transaction, lines 109-112: categorize, fall back to Uncategorized
RowCategorize(p) ==
    /\ call[p].pc = "row_categorize"
    /\ IF Txn(p).description = NoneStr
       THEN call' = [call EXCEPT ![p] = RowFailed(call[p], "AttributeError")]
       ELSE \E c \in categorize_transaction(category_rules, Txn(p).description) :
               IF c # NoId
               THEN call' = [call EXCEPT ![p].category_id = c, ![p].pc = "row_insert"]
               ELSE IF get_uncategorized_category_id(categories) = {}
               THEN call' = [call EXCEPT ![p] = RowFailed(call[p], NoUncategorized)]
               ELSE \E u \in get_uncategorized_category_id(categories) :
                       call' = [call EXCEPT ![p].category_id = u,
                                            ![p].pc = "row_insert"]
    /\ Quiet
    /\ UNCHANGED <<store, pending, writer, calls, edits, reply>>

\* the row import_transaction inserts
NewRow(id, account_id, txn, category_id, import_hash) ==
    [id |-> id, account_id |-> account_id, date |-> DateStr(txn.date),
     amount |-> Float(txn.amount), description |-> txn.description,
     merchant |-> txn.merchant, category_id |-> category_id,
     original_category |-> txn.original_category, notes |-> NoneStr,
     import_hash |-> import_hash]

NotNullFailed == "NOT NULL constraint failed: transactions.amount"

UniqueFailed == "UNIQUE constraint failed: transactions.import_hash"

\* the constraint of table transactions (database.py, lines 33-45) that row
\* violates among rows, "" when it violates none
ViolationWithoutUnique(rows, row) ==
    IF row.amount = SqlNull THEN NotNullFailed ELSE ""

Violation(rows, row) ==
    IF row.amount = SqlNull THEN NotNullFailed
    ELSE IF \E i \in 1..Len(rows) : rows[i].import_hash = row.import_hash
    THEN UniqueFailed
    ELSE ""

\* import_transaction, lines 114-134: the INSERT.  It waits while another
\* connection holds the write lock, and leaves this connection holding it.
RowInsert(p) ==
    LET c   == call[p]
        row == NewRow(Len(Visible(p)) + 1, c.account_id, Txn(p), c.category_id,
                      ImportHash(Txn(p), c.result.institution))
        bad == Violation(Visible(p), row)
    IN  /\ c.pc = "row_insert"
        /\ LockFree(p)
        /\ writer' = p
        /\ IF bad # ""
           THEN /\ call' = [call EXCEPT ![p] = RowFailed(c, bad)]
                /\ pending' = pending
           ELSE /\ call' = [call EXCEPT ![p] =
                       NextRow([c EXCEPT !.imported = c.imported + 1])]
                /\ pending' = [pending EXCEPT ![p] = Append(pending[p], row)]
        /\ Disturb(p)
        /\ UNCHANGED <<store, calls, edits, reply>>

\* import_file, lines 186-189: commit, then the status
Commit(p) ==
    /\ call[p].pc = "commit"
    /\ transactions' = transactions \o pending[p]
    /\ pending' = [pending EXCEPT ![p] = <<>>]
    /\ writer' = IF writer = p THEN NoProc ELSE writer
    /\ call' = [call EXCEPT
           ![p].status = ImportStatus(call[p].errors, call[p].imported),
           ![p].pc = "record"]
    /\ Disturb(p)
    /\ UNCHANGED <<accounts, categories, category_rules, imports, calls, edits,
                   reply>>

\* import_file, lines 190-208: the ImportRecord, its commit, the summary
RecordImport(p) ==
    LET c == call[p]
    IN  /\ c.pc = "record"
        /\ LockFree(p)
        /\ imports' = Append(imports,
               [filename |-> c.file, institution |-> c.result.institution,
                transaction_count |-> c.imported, status |-> c.status])
        /\ call' = [call EXCEPT
               ![p].summary_errors = c.errors \o c.result.warnings,
               ![p].recorded = c.recorded + 1,
               ![p].pc = "done"]
        /\ since' = c.file
        /\ rerun' = [q \in Procs |-> q = p /\ rerun[q]]
        /\ UNCHANGED <<accounts, categories, category_rules, transactions,
                       pending, writer, calls, edits, reply>>

\* ------------------------------------------------------------------------
\* routers: the edits a user makes between imports
\* ------------------------------------------------------------------------

\* the categories and names an edit request may name
EditableCategories == {CategoryIdByName(SeededCategories, "Uncategorized"),
                       CategoryIdByName(SeededCategories, "Coffee")}

EditNames == {"Uncategorized", "Misc"}

\* routers/categories.py update_category
UpdateCategory(category_id, name) ==
    /\ edits < MaxEdits
    /\ writer = NoProc
    /\ category_id \in 1..Len(categories)
    /\ categories' = [categories EXCEPT ![category_id] = name]
    /\ edits' = edits + 1
    /\ Disturb(NoProc)
    /\ UNCHANGED <<accounts, category_rules, transactions, imports, pending,
                   writer, call, calls, reply>>

\* routers/transactions.py update_transaction_category
UpdateTransactionCategory(transaction_id, category_id) ==
    /\ edits < MaxEdits
    /\ writer = NoProc
    /\ transaction_id \in 1..Len(transactions)
    /\ transactions' = [transactions EXCEPT ![transaction_id].category_id = category_id]
    /\ edits' = edits + 1
    /\ Disturb(NoProc)
    /\ UNCHANGED <<accounts, categories, category_rules, imports, pending,
                   writer, call, calls, reply>>

AccountArgs == {NoId, 1}

\* the steps of import_file on the connections procs, for the files of files
\* and the account arguments of accts
ImportSteps(procs, files, accts) ==
    \/ \E p \in procs, file \in files, account_id \in accts :
           ImportFile(p, file, account_id)
    \/ \E p \in procs : AccountLookup(p)
    \/ \E p \in procs : AccountInsert(p)
    \/ \E p \in procs : RowCheck(p)
    \/ \E p \in procs : RowCategorize(p)
    \/ \E p \in procs : RowInsert(p)
    \/ \E p \in procs : Commit(p)
    \/ \E p \in procs : RecordImport(p)

EditSteps ==
    \/ \E category_id \in EditableCategories, name \in EditNames :
           UpdateCategory(category_id, name)
    \/ \E transaction_id \in 1..Len(transactions),
          category_id \in EditableCategories :
           UpdateTransactionCategory(transaction_id, category_id)

\* uploads served one after the other, and edit requests
Next == ImportSteps({1}, Files, AccountArgs) \/ EditSteps

Spec == Init /\ [][Next]_vars

\* two uploads served at the same time, each on its own connection
RaceFiles == {ChaseCreditFile, ChaseNanFile}

NextRace == ImportSteps(Procs, RaceFiles, {NoId})

SpecRace == Init /\ [][NextRace]_vars

\* the steps of a call of import_file that has begun: the event loop runs
\* an awaiting coroutine on until it returns or raises
Progress(p) ==
    \/ AccountLookup(p)
    \/ AccountInsert(p)
    \/ RowCheck(p)
    \/ RowCategorize(p)
    \/ RowInsert(p)
    \/ Commit(p)
    \/ RecordImport(p)

\* uploads through upload_file, which passes no account id, served one
\* after the other
NextUpload == ImportSteps({1}, Files, {NoId})

SpecUpload == Init /\ [][NextUpload]_vars /\ WF_vars(Progress(1))

\* ------------------------------------------------------------------------
\* routers/categories.py: rules, and database.py init_database run again
\* ------------------------------------------------------------------------

\* rule edits served, at most, on top of MaxEdits
MaxRuleEdits == 1

\* the patterns and priorities a rule request may name
RulePatterns == {<<"s","t","a","r">>, <<"C","O","R","N","E","R">>}

RulePriorities == {1, 10}

\* the descriptions categorize_transaction is asked about
Descriptions ==
    {<<"S","t","a","r","b","u","c","k","s"," ","#","1","2","3">>,
     <<"C","O","R","N","E","R"," ","S","H","O","P">>,
     <<"R","E","N","T">>}

\* INTEGER PRIMARY KEY: one more than the largest id in the table
NextRuleId(rules) ==
    IF rules = <<>> THEN 1
    ELSE 1 + (CHOOSE m \in {rules[i].id : i \in 1..Len(rules)} :
                  \A i \in 1..Len(rules) : rules[i].id <= m)

\* create_rule: the pattern is stored upper-cased
CreateRule(pattern, category_id, priority) ==
    /\ edits < MaxEdits + MaxRuleEdits
    /\ writer = NoProc
    /\ category_rules' = Append(category_rules,
           [id |-> NextRuleId(category_rules), pattern |-> Upper(pattern),
            category_id |-> category_id, priority |-> priority])
    /\ edits' = edits + 1
    /\ Disturb(NoProc)
    /\ UNCHANGED <<accounts, categories, transactions, imports, pending,
                   writer, call, calls, reply>>

\* delete_rule
DeleteRule(rule_id) ==
    /\ edits < MaxEdits + MaxRuleEdits
    /\ writer = NoProc
    /\ \E i \in 1..Len(category_rules) : category_rules[i].id = rule_id
    /\ category_rules' = SelectSeq(category_rules, LAMBDA r : r.id # rule_id)
    /\ edits' = edits + 1
    /\ Disturb(NoProc)
    /\ UNCHANGED <<accounts, categories, transactions, imports, pending,
                   writer, call, calls, reply>>

\* a call of categorize_transaction on the committed rules
Categorize(description) ==
    /\ \E category_id \in categorize_transaction(category_rules, description) :
           reply' = [seq |-> 1 - reply.seq, op |-> "categorize",
                     given |-> description, value |-> category_id]
    /\ Quiet
    /\ UNCHANGED <<store, pending, writer, call, calls, edits>>

\* apply_rules_bulk: the rows of the category get_uncategorized_category_id
\* returns are categorized again; a row is updated when a rule gives it a
\* category other than that one
ApplyRulesBulk ==
    LET ids == get_uncategorized_category_id(categories)
    IN  IF ids = {}
        THEN /\ reply' = [seq |-> 1 - reply.seq, op |-> "apply_rules_raised",
                          given |-> <<>>, value |-> "ValueError"]
             /\ Quiet
             /\ UNCHANGED <<store, pending, writer, call, calls, edits>>
        ELSE \E uncategorized_id \in ids :
             LET rows  == {i \in 1..Len(transactions) :
                              transactions[i].category_id = uncategorized_id}
                 cands == UNION {categorize_transaction(category_rules,
                                     transactions[i].description) : i \in rows}
             IN  \E category_id \in [rows -> cands] :
                 LET hit == {i \in rows :
                                /\ category_id[i] # NoId
                                /\ category_id[i] # uncategorized_id}
                 IN  /\ \A i \in rows :
                            category_id[i] \in categorize_transaction(
                                category_rules, transactions[i].description)
                     /\ hit # {} => writer = NoProc
                     /\ transactions' =
                            [i \in 1..Len(transactions) |->
                                IF i \in hit
                                THEN [transactions[i] EXCEPT
                                          !.category_id = category_id[i]]
                                ELSE transactions[i]]
                     /\ reply' = [seq |-> 1 - reply.seq, op |-> "apply_rules",
                                  given |-> <<>>, value |-> Cardinality(hit)]
                     /\ IF hit = {} THEN Quiet ELSE Disturb(NoProc)
                     /\ UNCHANGED <<accounts, categories, category_rules,
                                    imports, pending, writer, call, calls,
                                    edits>>

\* init_database when the application starts again: the schema is created
\* "IF NOT EXISTS", and the seed is inserted only into an empty categories
\* table
InitDatabase ==
    /\ writer = NoProc
    /\ \A p \in Procs : call[p].pc \in {"idle", "done", "raised"}
    /\ IF categories = <<>>
       THEN /\ categories' = SeededCategories
            /\ category_rules' =
                   category_rules \o
                   SeededRulesFrom(SEED_RULES, SeededCategories,
                                   NextRuleId(category_rules))
       ELSE UNCHANGED <<categories, category_rules>>
    /\ reply' = [seq |-> 1 - reply.seq, op |-> "init_database",
                 given |-> <<>>, value |-> Len(categories')]
    /\ Quiet
    /\ UNCHANGED <<accounts, transactions, imports, pending, writer, call,
                   calls, edits>>

RuleFiles == {ChaseNanFile}

\* no call of import_file is in progress
Idle == \A p \in Procs : call[p].pc \in {"idle", "done", "raised"}

\* requests served one after the other: imports, category renames, rule
\* edits, bulk rule application, and the application started again
NextRules ==
    \/ ImportSteps({1}, RuleFiles, {NoId})
    \/ \E category_id \in EditableCategories, name \in EditNames :
           Idle /\ UpdateCategory(category_id, name)
    \/ \E category_id \in EditableCategories :
           Idle /\ CreateRule(<<"C","O","R","N","E","R">>, category_id, 10)
    \/ Idle /\ DeleteRule(NextRuleId(SeededRules))
    \/ Idle /\ ApplyRulesBulk
    \/ Idle /\ InitDatabase

SpecRules == Init /\ [][NextRules]_vars

\* categorize_transaction asked about a description, between rule edits
NextCategorize ==
    \/ \E pattern \in RulePatterns, priority \in RulePriorities :
           CreateRule(pattern, CategoryIdByName(SeededCategories, "Uncategorized"),
                      priority)
    \/ \E rule_id \in {1, NextRuleId(SeededRules)} : DeleteRule(rule_id)
    \/ \E description \in Descriptions : Categorize(description)

SpecCategorize == Init /\ [][NextCategorize]_vars

\* ------------------------------------------------------------------------
\* detect_parser, parse and the fingerprint, called on their own
\* ------------------------------------------------------------------------

Institutions == {Chase, Upper(Chase), Venmo, Lower(Venmo), Apple}

HashedTransactions ==
    {Parsed(date, Decimal(amount), description, NoneStr, NoneStr).txn :
        date \in {MakeDate(2024, 12, 14), MakeDate(2024, 12, 15)},
        amount \in {<<"-","5",".","5">>, <<"-","5",".","5","0">>},
        description \in {<<"S","T","A","R","B","U","C","K","S">>, <<"C","O","R","N","E","R"," ","S","H","O","P">>}}

\* await detect_parser(file_path)
DetectParser(file) ==
    /\ reply' = [seq |-> 1 - reply.seq, op |-> "detect_parser",
                 given |-> file.name, value |-> DetectedParser[file]]
    /\ Quiet
    /\ UNCHANGED <<store, pending, writer, call, calls, edits>>

\* parser.parse(file_path), for a parser whose can_parse accepts the file
ParseFile(parser, file) ==
    /\ CanParse(parser, file)
    /\ reply' = [seq |-> 1 - reply.seq, op |-> "parse",
                 given |-> <<parser, file.name>>, value |-> Parse(parser, file)]
    /\ Quiet
    /\ UNCHANGED <<store, pending, writer, call, calls, edits>>

\* the import_hash import_file has import_transaction compute for a
\* transaction of a parse result with the given institution
Fingerprint(txn, institution) ==
    /\ reply' = [seq |-> 1 - reply.seq, op |-> "import_hash",
                 given |-> <<txn, institution>>,
                 value |-> ImportHash(txn, institution)]
    /\ Quiet
    /\ UNCHANGED <<store, pending, writer, call, calls, edits>>

NextFunctions ==
    \/ \E file \in AllFiles : DetectParser(file)
    \/ \E i \in 1..Len(PARSERS), file \in AllFiles : ParseFile(PARSERS[i], file)
    \/ \E txn \in HashedTransactions, institution \in Institutions :
           Fingerprint(txn, institution)

SpecFunctions == Init /\ [][NextFunctions]_vars

\* uploads of the files of FormatFiles, one after the other
NextFormats == ImportSteps({1}, FormatFiles, {NoId})

SpecFormats == Init /\ [][NextFormats]_vars

\* ------------------------------------------------------------------------
\* Properties
\* ------------------------------------------------------------------------

FileNamed(name) == CHOOSE f \in Files : f.name = name

\* connection p takes a step of its import_file call
Stepped(p) == call'[p] # call[p]

Hashes(rows) == {rows[i].import_hash : i \in 1..Len(rows)}

Causes(errors) == {errors[i].cause : i \in 1..Len(errors)}

\* C1: an import of a file that begins right after an import of the same
\* file returned, with the Uncategorized category in place and no other write
\* to the store, returns imported = 0 and duplicates = total_transactions.
C1_SecondImportAllDuplicates ==
    \A p \in Procs :
        ( /\ call[p].pc = "done"
          /\ rerun[p]
          /\ get_uncategorized_category_id(categories) # {} )
        => /\ call[p].imported = 0
           /\ call[p].duplicates = Len(call[p].result.transactions)

\* C2: no two transaction rows, committed or inserted by a connection and
\* not yet committed, carry the same import_hash, also when two imports of
\* rows with one fingerprint interleave between check and insert.
C2_UniqueImportHash ==
    LET rows == transactions \o pending[1] \o pending[2]
    IN  \A i, j \in 1..Len(rows) :
            rows[i].import_hash = rows[j].import_hash => i = j

\* C2, the case: an insert of one connection collided with the row another
\* connection had inserted after this one's existence check, and was
\* rejected
C2_RacingInsertRejected ==
    \E p \in Procs :
        /\ UniqueFailed \in Causes(call[p].errors)
        /\ call[p].pc = "done"

\* C3: an insert that meets a fingerprint already in the store counts the row
\* as a duplicate and adds nothing to the errors list.
C3_CollisionCountsAsDuplicate ==
    [][\A p \in Procs :
          ( /\ call[p].pc = "row_insert"
            /\ Stepped(p)
            /\ ImportHash(Txn(p), call[p].result.institution) \in Hashes(Visible(p)) )
          => /\ call'[p].duplicates = call[p].duplicates + 1
             /\ call'[p].errors = call[p].errors]_vars

\* C4: a step of import_file on a row whose fingerprint is already in the
\* store leaves every transaction row as it is and inserts none.
C4_DuplicateLeavesRowsUnchanged ==
    [][\A p \in Procs :
          ( /\ call[p].pc \in {"row_check", "row_insert"}
            /\ Stepped(p)
            /\ ImportHash(Txn(p), call[p].result.institution) \in Hashes(Visible(p)) )
          => /\ transactions' = transactions
             /\ pending' = pending]_vars

\* C4, the case: the file is imported again after the user moved one of its
\* transactions to another category; the rows count as duplicates and the
\* user's category is still there
C4_ReimportAfterCategoryEdit ==
    /\ call[1].pc = "done"
    /\ call[1].file = ChaseCreditFile.name
    /\ call[1].duplicates = 2
    /\ \E i \in 1..Len(transactions) :
           /\ transactions[i].description = ChaseCreditFile.rows[1][3]
           /\ transactions[i].category_id = CategoryIdByName(SeededCategories, "Coffee")

\* C5: a call of import_file for which a parser was detected has appended
\* exactly one ImportRecord when it ends, and the record holds the file name,
\* the institution, the number of rows imported and the returned status.
C5_OneImportRecordPerCall ==
    \A p \in Procs :
        (call[p].pc \in {"done", "raised"} /\ call[p].parser # NoParser)
        => /\ call[p].recorded = 1
           /\ \E i \in 1..Len(imports) :
                  imports[i] = [filename |-> call[p].file,
                                institution |-> call[p].result.institution,
                                transaction_count |-> call[p].imported,
                                status |-> call[p].status]

\* C6: the returned status is success when the import has no row error,
\* partial when it has one and imported a row, failed when it has one and
\* imported none; it is always one of the three, an import of duplicates
\* alone is a success, and the ImportRecord the call wrote carries it.
C6_StatusFromErrorsAndImported ==
    \A p \in Procs :
        call[p].pc = "done"
        => LET c == call[p]
           IN  /\ c.status \in {"success", "partial", "failed"}
               /\ c.status = "success" <=> c.errors = <<>>
               /\ c.status = "partial" <=> (c.errors # <<>> /\ c.imported > 0)
               /\ c.status = "failed" <=> (c.errors # <<>> /\ c.imported = 0)
               /\ (c.errors = <<>> /\ c.duplicates = Len(c.result.transactions))
                      => c.status = "success"
               /\ imports # <<>>
               /\ imports[Len(imports)].status = c.status

\* C6, the case: a partial import, then a failed one
C6_PartialThenFailed ==
    /\ call[1].pc = "done"
    /\ Len(imports) = 2
    /\ imports[1].status = "partial"
    /\ imports[2].status = "failed"

\* C7: an import with a parser warning and at least one imported row returns
\* partial, and success is returned only with an empty errors list in the
\* summary.
C7_WarningsMakePartial ==
    \A p \in Procs :
        call[p].pc = "done"
        => /\ (call[p].result.warnings # <<>> /\ call[p].imported > 0)
                  => call[p].status = "partial"
           /\ call[p].status = "success" => call[p].summary_errors = <<>>

\* C8: when a row needs the fallback category and no category is named
\* Uncategorized, the import is aborted: the call raises and goes on to no
\* other row.
C8_MissingUncategorizedAborts ==
    \A p \in Procs :
        NoUncategorized \in Causes(call[p].errors) => call[p].pc = "raised"

\* C9: a row whose insert fails adds one entry with its 1-based ordinal to
\* the errors list and the import goes on: when it returns, every row was
\* counted as imported, duplicate or error, the entries are in row order,
\* and every row without an entry is in the store.
C9_RowErrorDoesNotAbort ==
    \A p \in Procs :
        call[p].pc = "done"
        => LET c    == call[p]
               txns == c.result.transactions
               bad  == {c.errors[i].n : i \in 1..Len(c.errors)}
           IN  /\ \A i \in 1..Len(c.errors) :
                      /\ c.errors[i].n \in 1..Len(txns)
                      /\ i > 1 => c.errors[i - 1].n < c.errors[i].n
               /\ c.imported + c.duplicates + Len(c.errors) = Len(txns)
               /\ \A k \in 1..Len(txns) :
                      k \notin bad
                      => ImportHash(txns[k], c.result.institution)
                             \in Hashes(transactions)

\* C9, the case: the insert of row 1 failed in the store, row 2 was imported
C9_ErrorThenImported ==
    /\ call[1].pc = "done"
    /\ Len(call[1].errors) = 1
    /\ call[1].errors[1] = [kind |-> "Transaction", n |-> 1, cause |-> NotNullFailed]
    /\ call[1].imported = 1
    /\ Len(call[1].result.transactions) = 2

\* C10: a call of import_file on a file that no registered parser accepts
\* raises a ValueError at once and writes nothing to the store.
C10_NoParserNoWrite ==
    [][\A p \in Procs :
          ( /\ Stepped(p)
            /\ call'[p].file # ""
            /\ \A i \in 1..Len(PARSERS) :
                   ~CanParse(PARSERS[i], FileNamed(call'[p].file)) )
          => /\ call[p].pc \in {"idle", "done", "raised"}
             /\ call'[p].pc = "raised"
             /\ call'[p].exc = "ValueError"
             /\ call'[p].recorded = 0
             /\ UNCHANGED <<store, pending>>]_vars

\* C10, the case: the call on the unknown file has raised, after an earlier
\* import filled the store
C10_UnknownFileRaised ==
    /\ call[1].pc = "raised"
    /\ call[1].file = UnknownFile.name
    /\ call[1].parser = NoParser
    /\ transactions # <<>>
    /\ Len(imports) = 1

SamePair(a, b) == a.name = b.name /\ a.institution = b.institution

\* C11: a call of import_file that has begun on a file a parser accepts
\* goes on to the end: it eventually has written its ImportRecord and
\* returned its summary.
C11_RecognisedFileRunsToCompletion ==
    \A p \in Procs :
        [](call[p].parser # NoParser => <>(call[p].pc = "done"))

\* C12: with imports run one after the other and no account id given, no two
\* account rows share (name, institution); an account is created only when
\* no row has the pair, and the call goes on with the id of the one row that
\* has it.
C12_OneAccountPerPair ==
    [][\A p \in Procs :
          (call[p].pc \in {"account_lookup", "account_insert"} /\ Stepped(p))
          => LET r == [name |-> call[p].result.account_name,
                       institution |-> call[p].result.institution]
                 had == {i \in 1..Len(accounts) : SamePair(accounts[i], r)}
                 has == {i \in 1..Len(accounts') : SamePair(accounts'[i], r)}
             IN  /\ \A i, j \in 1..Len(accounts') :
                        SamePair(accounts'[i], accounts'[j]) => i = j
                 /\ had # {} => accounts' = accounts
                 /\ Len(accounts') > Len(accounts) => had = {}
                 /\ call'[p].pc # "account_insert"
                        => /\ has = {call'[p].account_id}
                           /\ had # {} => has = had]_vars

\* C12, the case: the second import of the file has reused the account the
\* first one created
C12_SecondImportReusesAccount ==
    /\ call[1].pc = "done"
    /\ call[1].file = ChaseCreditFile.name
    /\ call[1].account_id = 1
    /\ Len(accounts) = 1
    /\ Len(imports) = 2
    /\ imports[1].filename = ChaseCreditFile.name

\* C13: categorize_transaction returns the category of a rule whose pattern
\* is in the description, letter case aside, and no rule with a pattern in
\* the description has a higher priority; it returns none exactly when no
\* rule's pattern is in the description.
C13_HighestPriorityMatch ==
    [][(reply'.seq # reply.seq /\ reply'.op = "categorize")
       => LET d    == Upper(reply'.given)
              hits == {i \in 1..Len(category_rules) :
                          Contains(d, Upper(category_rules[i].pattern))}
          IN  /\ reply'.value = NoId <=> hits = {}
              /\ hits # {}
                 => \E i \in hits :
                        /\ category_rules[i].category_id = reply'.value
                        /\ \A j \in hits : category_rules[j].priority
                                               <= category_rules[i].priority]_vars

\* C13, the case: with the rules STARBUCKS of priority 10 and STAR of
\* priority 1, a Starbucks description got the category of STARBUCKS
C13_StarbucksOverStar ==
    /\ reply.op = "categorize"
    /\ reply.given = <<"S","t","a","r","b","u","c","k","s"," ","#","1","2","3">>
    /\ reply.value = CategoryIdByName(SeededCategories, "Coffee")
    /\ \E i, j \in 1..Len(category_rules) :
           /\ category_rules[i].pattern = <<"S","T","A","R","B","U","C","K","S">>
           /\ category_rules[i].priority = 10
           /\ category_rules[i].category_id = reply.value
           /\ category_rules[j].pattern = <<"S","T","A","R">>
           /\ category_rules[j].priority = 1
           /\ category_rules[j].category_id # reply.value

\* the category id names a category called Uncategorized
IsUncategorized(category_id) ==
    /\ category_id \in 1..Len(categories)
    /\ categories[category_id] = "Uncategorized"

\* the step is a run of apply_rules_bulk that returned its count
AppliedRules ==
    /\ reply'.op = "apply_rules"
    /\ call' = call
    /\ edits' = edits
    /\ reply'.seq # reply.seq

\* C14: apply_rules_bulk changes a transaction only if it was assigned to
\* Uncategorized and the rules now give it another category that is not
\* Uncategorized; every such transaction gets that category and nothing else
\* of it changes; no other table changes; the count returned is the number
\* of transactions changed.
C14_BulkApplyChangesOnlyUncategorized ==
    [][AppliedRules
       => LET rows     == 1..Len(transactions)
              cands(i) == categorize_transaction(category_rules,
                                                 transactions[i].description)
              changed  == {i \in rows : transactions'[i] # transactions[i]}
          IN  /\ Len(transactions') = Len(transactions)
              /\ UNCHANGED <<accounts, categories, category_rules, imports, pending>>
              /\ \A i \in changed :
                     LET new == transactions'[i].category_id
                     IN  /\ IsUncategorized(transactions[i].category_id)
                         /\ new \in cands(i)
                         /\ new # NoId
                         /\ new # transactions[i].category_id
                         /\ ~IsUncategorized(new)
                         /\ transactions'[i] =
                                [transactions[i] EXCEPT !.category_id = new]
              /\ \A i \in rows :
                     ( /\ IsUncategorized(transactions[i].category_id)
                       /\ \A c \in cands(i) :
                              /\ c # NoId
                              /\ c # transactions[i].category_id
                              /\ ~IsUncategorized(c) )
                     => i \in changed
              /\ reply'.value = Cardinality(changed)]_vars

\* C19: exactly one category is named Uncategorized.
C19_ExactlyOneUncategorized ==
    Cardinality({i \in 1..Len(categories) : categories[i] = "Uncategorized"}) = 1

\* C15: detect_parser returns the first parser of the registry order Chase,
\* Venmo, Apple Card whose can_parse accepts the file, and none exactly when
\* no parser accepts it; the answer is this function of the file on every
\* call, so a file both the Chase and the Apple Card parser accept always
\* resolves to the Chase parser.
C15_FirstAcceptingParser ==
    \A file \in AllFiles :
        (reply.op = "detect_parser" /\ reply.given = file.name) =>
            LET accepting == {i \in 1..Len(PARSERS) : CanParse(PARSERS[i], file)}
            IN  /\ PARSERS = <<"ChaseParser", "VenmoParser", "AppleCardParser">>
                /\ (accepting = {}) <=> (reply.value = NoParser)
                /\ \A i \in accepting :
                       (\A j \in accepting : i <= j) => reply.value = PARSERS[i]

\* detect_parser answered the Chase parser for a file the Apple Card parser
\* accepts as well
C15_ChaseBeforeApple ==
    /\ reply.op = "detect_parser"
    /\ reply.given = ChaseAppleFile.name
    /\ reply.value = "ChaseParser"
    /\ CanParse("ChaseParser", ChaseAppleFile)
    /\ CanParse("AppleCardParser", ChaseAppleFile)

SameUpToCase(s, t) ==
    /\ Len(s) = Len(t)
    /\ \A i \in 1..Len(s) : UpperChar(s[i]) = UpperChar(t[i])

\* C16: of two fingerprints computed one after the other, the same four
\* inputs give the same digest, inputs that differ only in the letter case of
\* the institution give the same digest, and inputs that differ only in the
\* institution, by more than letter case, give different digests.
C16_FingerprintOfInstitution ==
    [][(reply.op = "import_hash" /\ reply'.op = "import_hash"
            /\ reply'.seq # reply.seq) =>
          LET a == reply.given
              b == reply'.given
          IN  /\ a = b => reply'.value = reply.value
              /\ (a[1] = b[1] /\ SameUpToCase(a[2], b[2])) =>
                     reply'.value = reply.value
              /\ (a[1] = b[1] /\ ~SameUpToCase(a[2], b[2])) =>
                     reply'.value # reply.value]_vars

\* the fingerprint of a transaction of institution "CHASE" was computed and
\* is the digest the same transaction has for "Chase"
C16_UpperCaseChaseHashed ==
    /\ reply.op = "import_hash"
    /\ reply.given[2] = Upper(Chase)
    /\ reply.given[2] # Chase
    /\ reply.value = ImportHash(reply.given[1], Chase)

\* rows k and l of a parse result are the same transaction but for the way
\* the amount was written
SameButAmountText(txns, k, l) ==
    /\ k # l
    /\ txns[k].date = txns[l].date
    /\ txns[k].description = txns[l].description
    /\ ~txns[k].amount.nan
    /\ Float(txns[k].amount) = Float(txns[l].amount)
    /\ txns[k].amount # txns[l].amount

\* C17: when an import has returned, two rows of its file with the same date
\* and description whose amounts are the same number written differently
\* have different fingerprints and both fingerprints are stored; the first
\* import of a file of two such rows imports 2 and counts 0 duplicates.
C17_AmountTextDecidesFingerprint ==
    \A p \in Procs :
        call[p].pc = "done" =>
            LET txns == call[p].result.transactions
                inst == call[p].result.institution
            IN  \A k, l \in 1..Len(txns) :
                    SameButAmountText(txns, k, l) =>
                        /\ ImportHash(txns[k], inst) # ImportHash(txns[l], inst)
                        /\ ImportHash(txns[k], inst) \in Hashes(transactions)
                        /\ ImportHash(txns[l], inst) \in Hashes(transactions)
                        /\ (Len(imports) = 1 /\ Len(txns) = 2) =>
                               /\ call[p].imported = 2
                               /\ call[p].duplicates = 0

\* the import of amounts.csv returned: -5.5 and -5.50 are stored as two
\* transactions of the same amount and nothing was counted a duplicate
C17_BothAmountsStored ==
    \E p \in Procs :
        /\ call[p].pc = "done"
        /\ call[p].file = AmountTextFile.name
        /\ SameButAmountText(call[p].result.transactions, 1, 2)
        /\ call[p].imported = 2
        /\ call[p].duplicates = 0
        /\ Len(transactions) = 2
        /\ transactions[1].amount = transactions[2].amount
        /\ transactions[1].import_hash # transactions[2].import_hash

\* the source row of the n-th transaction of a parse result whose parser
\* numbers the data rows from 2 and skips none: the n-th row that has no
\* warning
RECURSIVE NthParsedRow(_, _, _)
NthParsedRow(warnings, row_num, n) ==
    IF \E i \in 1..Len(warnings) : warnings[i].n = row_num
    THEN NthParsedRow(warnings, row_num + 1, n)
    ELSE IF n = 1 THEN row_num
    ELSE NthParsedRow(warnings, row_num + 1, n - 1)

\* the source row an entry of the summary is about
SourceRow(result, entry) ==
    IF entry.kind = "Row" THEN entry.n
    ELSE NthParsedRow(result.warnings, 2, entry.n)

\* C18: in the list of errors and warnings an import of a Chase or Apple Card
\* file returns, an entry about an earlier source row never comes after an
\* entry about a later source row.
C18_SummaryInSourceOrder ==
    \A p \in Procs :
        (call[p].pc = "done" /\ call[p].parser # "VenmoParser") =>
            LET es == call[p].summary_errors
            IN  \A i, j \in 1..Len(es) :
                    i < j => SourceRow(call[p].result, es[i])
                                 <= SourceRow(call[p].result, es[j])

\* C20: the parse of a file with data rows by a parser that accepts it
\* returns; every warning is a "Row N" entry, and each data row gave either
\* one transaction or one warning (a Venmo row may also be skipped).
C20_MalformedRowNeverAborts ==
    \A file \in AllFiles :
        (reply.op = "parse" /\ reply.given[2] = file.name /\ file.rows # <<>>) =>
            LET r    == reply.value
                rows == NonEmptyRows(file.rows)
            IN  /\ ~r.raised
                /\ \A i \in 1..Len(r.warnings) : r.warnings[i].kind = "Row"
                /\ Len(r.transactions) + Len(r.warnings) <= Len(rows)
                /\ reply.given[1] # "VenmoParser" =>
                       Len(r.transactions) + Len(r.warnings) = Len(rows)

\* the rows csv.DictReader hands to the loop of VenmoParser.parse
VenmoRows(file) ==
    LET data == NonEmptyRows(file.rows)
    IN  [i \in 1..Len(data) |-> RowDict(file.headers, data[i])]

\* the row is not Complete, or is a Standard Transfer
Skipped(row) ==
    \/ Get(row, "Status", NoneStr) # Complete
    \/ Get(row, "Type", <<>>) = StandardTransfer

VenmoParsed(file) ==
    reply.op = "parse" /\ reply.given = <<"VenmoParser", file.name>>

\* C21: in the result of VenmoParser.parse the rows that are not Complete or
\* are Standard Transfers leave no trace: the transactions and warnings
\* together are as many as the other rows, every warning carries the number
\* of one of the other rows, and no transaction is a Standard Transfer.
C21_SkippedRowsLeaveNoTrace ==
    \A file \in AllFiles :
        VenmoParsed(file) =>
            LET rows  == VenmoRows(file)
                first == Len(file.preamble) + 2
                r     == reply.value
                kept  == {i \in 1..Len(rows) : ~Skipped(rows[i])}
            IN  /\ ~r.raised
                /\ Len(r.transactions) + Len(r.warnings) = Cardinality(kept)
                /\ \A w \in 1..Len(r.warnings) :
                       \E i \in kept : r.warnings[w].n = first + i - 1
                /\ \A t \in 1..Len(r.transactions) :
                       r.transactions[t].original_category # StandardTransfer

\* venmo_mix.csv was parsed: its Pending row and its Standard Transfer, both
\* with an unreadable date and amount, gave nothing; the other four rows gave
\* three transactions and the warning of row 9
C21_PendingRowWithBadDateSkipped ==
    /\ VenmoParsed(VenmoMixFile)
    /\ \E i \in 1..Len(VenmoRows(VenmoMixFile)) :
           /\ Skipped(VenmoRows(VenmoMixFile)[i])
           /\ ~VenmoParseRow(VenmoRows(VenmoMixFile)[i]).ok
    /\ Len(reply.value.transactions) = 3
    /\ Len(reply.value.warnings) = 1
    /\ reply.value.warnings[1].n = 9

ApplePurchased(file) ==
    reply.op = "parse" /\ reply.given = <<"AppleCardParser", file.name>>

\* the rows of an Apple Card file that gave a transaction, in source order
AppleParsedRows(file) ==
    SelectSeq(DictRows(file), LAMBDA row : AppleParseRow(row).ok)

\* C22: in the result of AppleCardParser.parse the amount of a row of Type
\* Purchase is negative (or zero), whatever the sign of the source amount,
\* and the amount of a row of any other type is the source amount.
C22_PurchaseIsNegative ==
    \A file \in AllFiles :
        ApplePurchased(file) =>
            LET rows == AppleParsedRows(file)
                txns == reply.value.transactions
            IN  /\ Len(txns) = Len(rows)
                /\ \A k \in 1..Len(txns) :
                       IF rows[k]["Type"] = Purchase
                       THEN ~IsPositive(txns[k].amount)
                       ELSE txns[k].amount =
                                Decimal(RemoveChar(rows[k]["Amount (USD)"], ","))

\* the rows of a Venmo file that gave a transaction, in source order
VenmoParsedRows(file) ==
    SelectSeq(VenmoRows(file),
              LAMBDA row : ~Skipped(row) /\ VenmoParseRow(row).ok)

PaymentTo(user) == <<"P","a","y","m","e","n","t"," ","t","o"," ">> \o user

PaymentFrom(user) == <<"P","a","y","m","e","n","t"," ","f","r","o","m"," ">> \o user

\* C26: in the result of VenmoParser.parse the amount of a Charge is the
\* source amount negated and any other amount is the source amount; without
\* a note the description is "Payment from {sender}" for a positive amount
\* and "Payment to {recipient}" otherwise; the merchant is the recipient for
\* a negative and the sender for a positive amount; and a description made
\* from a counterparty names the merchant.
C26_CounterpartyFollowsAmount ==
    \A file \in AllFiles :
        VenmoParsed(file) =>
            LET rows == VenmoParsedRows(file)
                txns == reply.value.transactions
            IN  /\ Len(txns) = Len(rows)
                /\ \A k \in 1..Len(txns) :
                       LET row == rows[k]
                           t   == txns[k]
                           src == VenmoAmount(row["Amount (total)"])
                       IN  /\ t.amount = IF row["Type"] = Charge THEN Neg(src) ELSE src
                           /\ IsNegative(t.amount) => t.merchant = Strip(row["To"])
                           /\ IsPositive(t.amount) => t.merchant = Strip(row["From"])
                           /\ Strip(row["Note"]) = <<>> =>
                                  /\ t.description =
                                         IF IsPositive(t.amount)
                                         THEN PaymentFrom(row["From"])
                                         ELSE PaymentTo(row["To"])
                                  /\ t.description = PaymentTo(row["To"]) =>
                                         t.merchant = Strip(row["To"])
                                  /\ t.description = PaymentFrom(row["From"]) =>
                                         t.merchant = Strip(row["From"])

ChaseParsed(file) ==
    reply.op = "parse" /\ reply.given = <<"ChaseParser", file.name>>

\* the date and the amount a well-formed row of a Chase file states
ChaseRowDate(file, row) ==
    IF FirstThreeIn(CREDIT_HEADERS, FieldNames(file))
    THEN Strptime(row["Transaction Date"])
    ELSE Strptime(row["Posting Date"])

ChaseRowAmount(file, row) ==
    IF FirstThreeIn(CREDIT_HEADERS, FieldNames(file))
    THEN Decimal(row["Amount"])
    ELSE Decimal(RemoveChar(row["Amount"], ","))

ChaseWellFormed(file) ==
    /\ DictRows(file) # <<>>
    /\ \A i \in 1..Len(DictRows(file)) :
           /\ ChaseRowDate(file, DictRows(file)[i]) # DateInvalid
           /\ ChaseRowAmount(file, DictRows(file)[i]).ok

\* C27: ChaseParser.parse of a credit or checking file whose data rows are
\* all well-formed returns institution Chase, no warning, and one
\* transaction per data row in source order with the row's date and signed
\* amount.
C27_OneTransactionPerRow ==
    \A file \in AllFiles :
        (ChaseParsed(file) /\ ChaseWellFormed(file)) =>
            LET rows == DictRows(file)
                r    == reply.value
            IN  /\ ~r.raised
                /\ r.institution = Chase
                /\ r.warnings = <<>>
                /\ Len(r.transactions) = Len(rows)
                /\ \A i \in 1..Len(rows) :
                       /\ r.transactions[i].date = ChaseRowDate(file, rows[i])
                       /\ r.transactions[i].amount = ChaseRowAmount(file, rows[i])

\* the checking export of the test was parsed: 12/15/2024 -100.00, then
\* 12/16/2024 2000.00
C27_CheckingFileParsed ==
    /\ ChaseParsed(ChaseCheckingFile)
    /\ ChaseWellFormed(ChaseCheckingFile)
    /\ Len(reply.value.transactions) = 2
    /\ reply.value.transactions[1].date = <<2024, 12, 15>>
    /\ DecimalStr(reply.value.transactions[1].amount) = <<"-","1","0","0",".","0","0">>
    /\ reply.value.transactions[2].date = <<2024, 12, 16>>
    /\ DecimalStr(reply.value.transactions[2].amount) = <<"2","0","0","0",".","0","0">>

\* C28: for every file a parser's can_parse accepts, the parser's parse
\* returns a result and raises nothing; for a file whose data rows are all
\* malformed the result has no transaction and one warning per row.
C28_AcceptedFileParses ==
    \A file \in AllFiles : \A i \in 1..Len(PARSERS) :
        (reply.op = "parse" /\ reply.given = <<PARSERS[i], file.name>>) =>
            /\ CanParse(PARSERS[i], file)
            /\ ~reply.value.raised
            /\ (reply.value.transactions = <<>> /\ PARSERS[i] # "VenmoParser") =>
                   Len(reply.value.warnings) = Len(NonEmptyRows(file.rows))

\* C23 (precondition): the rows of the parse result are all well-formed (no
\* warning, every amount a number) and have pairwise different fingerprints
AllRowsDistinctAndWellFormed(result) ==
    /\ result.warnings = <<>>
    /\ \A k \in 1..Len(result.transactions) :
           /\ ~result.transactions[k].amount.nan
           /\ \A l \in 1..Len(result.transactions) :
                  ImportHash(result.transactions[k], result.institution)
                      = ImportHash(result.transactions[l], result.institution)
                  => k = l

\* C23: with the seeded categories untouched, the first import of a file of
\* well-formed rows with pairwise different fingerprints returns imported =
\* total_transactions, duplicates = 0 and status success, and an import of
\* the same file that begins right after it returned gives imported = 0,
\* duplicates = total_transactions and status success.
C23_ImportThenReimport ==
    \A p \in Procs :
        ( /\ call[p].pc = "done"
          /\ edits = 0
          /\ AllRowsDistinctAndWellFormed(call[p].result) )
        => /\ Len(imports) = 1 =>
                  /\ call[p].imported = Len(call[p].result.transactions)
                  /\ call[p].duplicates = 0
                  /\ call[p].status = "success"
           /\ rerun[p] =>
                  /\ call[p].imported = 0
                  /\ call[p].duplicates = Len(call[p].result.transactions)
                  /\ call[p].status = "success"

\* the two-row credit file was imported (2 imported, success) and then
\* imported again: 0 imported, 2 duplicates, success
C23_CreditFileTwice ==
    \E p \in Procs :
        /\ call[p].pc = "done"
        /\ rerun[p]
        /\ edits = 0
        /\ call[p].file = ChaseCreditFile.name
        /\ call[p].imported = 0
        /\ call[p].duplicates = 2
        /\ call[p].status = "success"
        /\ Len(imports) = 2
        /\ imports[1].transaction_count = 2
        /\ imports[1].status = "success"

\* C24: the category import_transaction settles for a row is never None: it
\* is the category of a rule categorize_transaction selects for the row's
\* description, or the id of an Uncategorized category when no rule matches;
\* and the row is inserted with that category.
C24_InsertedRowHasCategory ==
    [][\A p \in Procs :
          /\ (call[p].pc = "row_categorize" /\ call'[p].pc = "row_insert") =>
                 LET found == categorize_transaction(category_rules,
                                                     Txn(p).description)
                 IN  /\ call'[p].category_id # NoId
                     /\ found # {NoId} => call'[p].category_id \in found
                     /\ found = {NoId} =>
                            call'[p].category_id
                                \in get_uncategorized_category_id(categories)
          /\ (call[p].pc = "row_insert" /\ Len(pending'[p]) > Len(pending[p])) =>
                 /\ call[p].category_id # NoId
                 /\ pending'[p][Len(pending'[p])].category_id = call[p].category_id
      ]_vars

\* the store holds a row no rule matches, filed under Uncategorized, and a
\* row filed under the category of a rule that matches it
C24_FallbackAndRuleStored ==
    \E i, j \in 1..Len(transactions) :
        /\ categorize_transaction(category_rules, transactions[i].description) = {NoId}
        /\ transactions[i].category_id
               \in get_uncategorized_category_id(categories)
        /\ NoId \notin categorize_transaction(category_rules, transactions[j].description)
        /\ transactions[j].category_id
               \in categorize_transaction(category_rules, transactions[j].description)

\* C25: no two account rows carry the same (name, institution) pair, also
\* when two import_file calls resolve the same pair at the same time.
C25_OneAccountRowAfterRace ==
    \A i, j \in 1..Len(accounts) : SamePair(accounts[i], accounts[j]) => i = j

\* rows of the parse result the loop of import_file has dealt with
RowsDone(c) ==
    IF c.pc \in {"row_check", "row_categorize", "row_insert"} THEN c.idx - 1
    ELSE IF c.pc \in {"commit", "record", "done"} THEN Len(c.result.transactions)
    ELSE 0

\* C29: at every point of import_file the rows dealt with are imported +
\* duplicates + row errors, so each row is counted once; at the return
\* total_transactions = imported + duplicates + errors, and the ImportRecord
\* written by the call holds transaction_count = imported.
C29_CountersConserved ==
    \A p \in Procs :
        LET c == call[p]
        IN  /\ c.imported + c.duplicates + Len(c.errors) = RowsDone(c)
            /\ c.pc = "done" =>
                   /\ Len(c.result.transactions)
                          = c.imported + c.duplicates + Len(c.errors)
                   /\ \E i \in 1..Len(imports) :
                          /\ imports[i].filename = c.file
                          /\ imports[i].transaction_count = c.imported

\* an import returned with a row imported and a row that raised
C29_ImportedAndFailedRows ==
    \E p \in Procs :
        /\ call[p].pc = "done"
        /\ call[p].imported > 0
        /\ Len(call[p].errors) > 0
        /\ Len(call[p].result.transactions)
               = call[p].imported + call[p].duplicates + Len(call[p].errors)

\* transactions of a parse result equal in date, amount and description to
\* its k-th
SameAs(txns, k) ==
    {l \in 1..Len(txns) :
        /\ txns[l].date = txns[k].date
        /\ txns[l].amount = txns[k].amount
        /\ txns[l].description = txns[k].description}

\* C30: when the first import into the store returns, of the transactions of
\* its parse result that are identical in date, amount and description
\* exactly one is stored; the others were counted duplicates, none an error.
C30_RepeatedRowStoredOnce ==
    \A p \in Procs :
        (call[p].pc = "done" /\ Len(imports) = 1) =>
            LET txns == call[p].result.transactions
                inst == call[p].result.institution
                firsts == {k \in 1..Len(txns) : \A l \in SameAs(txns, k) : k <= l}
            IN  (\A k \in 1..Len(txns) : ~txns[k].amount.nan) =>
                    /\ \A k \in 1..Len(txns) :
                           Cardinality({i \in 1..Len(transactions) :
                               transactions[i].import_hash
                                   = ImportHash(txns[k], inst)}) = 1
                    /\ call[p].imported = Cardinality(firsts)
                    /\ call[p].duplicates = Len(txns) - Cardinality(firsts)
                    /\ call[p].errors = <<>>

\* twice.csv, the same purchase on three of its four rows, was imported
\* into the empty store: 2 rows stored, 2 counted duplicates
C30_ThreeCopiesOneRow ==
    \E p \in Procs :
        /\ call[p].pc = "done"
        /\ Len(imports) = 1
        /\ call[p].file = DuplicateRowsFile.name
        /\ Cardinality(SameAs(call[p].result.transactions, 1)) = 3
        /\ call[p].imported = 2
        /\ call[p].duplicates = 2
        /\ Len(transactions) = 2

====
